---- MODULE Spec2Model ----
(***************************************************************************)
(* Offline-first synchronisation engine: the entity mapper (flattenData,   *)
(* constructData), the last-writer-wins reconciler (mergeItems), the       *)
(* tombstone filter (applyDeletionsToLocal), the push operations           *)
(* (deleteDataFromSupabase, upsertDataToSupabase) and the orchestrator     *)
(* (useSync.manualSync / fetchAndRefresh wired by useSupabaseData).        *)
(***************************************************************************)
EXTENDS Integers, Sequences, FiniteSets, TLC

(***************************************************************************)
(* Values                                                                  *)
(***************************************************************************)

\* A field that is absent from a JavaScript object (undefined / null).
Undef == "undefined"

\* updated_at absent: `new Date(item.updated_at || 0).getTime()` reads it as 0.
NoDate == -1

\* mergeItems: local wins only if localDate > remoteDate + 1000.
MergeBuffer == 1000

\* applyDeletionsToLocal: purge if updatedAt < deletedAt + 2000.
TombstoneBuffer == 2000

\* The tables in the order manualSync and fetchAndRefresh merge them.
Tables ==
    << "clients", "cases", "stages", "sessions", "admin_tasks", "appointments",
       "accounting_entries", "assistants", "invoices", "invoice_items",
       "case_documents", "profiles", "site_finances" >>

TableSet == { Tables[i] : i \in 1..Len(Tables) }

\* One flat record.  `ver` stands for the payload fields of the entity (which
\* copy of the record this is); the other fields are the ones the engine reads.
Rec(id, upd, ver) ==
    [ id |-> id, name |-> Undef, updated_at |-> upd, ver |-> ver,
      user_id |-> Undef,
      client_id |-> Undef, clientId |-> Undef, case_id |-> Undef,
      caseId |-> Undef, stage_id |-> Undef, invoice_id |-> Undef,
      localState |-> Undef ]

\* An assistants record: { name }, no id, no updated_at.
NameRec(name, ver) == [ Rec(Undef, NoDate, ver) EXCEPT !.name = name ]

(***************************************************************************)
(* Sequence helpers                                                        *)
(***************************************************************************)

Range(s) == { s[i] : i \in 1..Len(s) }

RECURSIVE Flatten(_)
Flatten(ss) == IF ss = <<>> THEN <<>> ELSE Head(ss) \o Flatten(Tail(ss))

\* { ...r, f: v }
With(r, f, v) == [ x \in (DOMAIN r) \cup {f} |-> IF x = f THEN v ELSE r[x] ]

\* ({ f, ...rest }) => rest
Without(r, f) == [ x \in (DOMAIN r) \ {f} |-> r[x] ]

\* new Date(x || 0).getTime()
TimeOf(upd) == IF upd = NoDate THEN 0 ELSE upd

(***************************************************************************)
(* mergeItems                                                              *)
(***************************************************************************)

\* getPk: (item.id ?? item.name ?? '').toString()
getPk(item) ==
    IF item.id # Undef THEN item.id
    ELSE IF item.name # Undef THEN item.name
    ELSE ""

\* `${tableName}:${id}`
DelKey(tableName, id) == << tableName, id >>

\* remote.find(r => getPk(r) === id): is there a match, and the first match.
HasRemote(remote, id) == \E i \in 1..Len(remote) : getPk(remote[i]) = id

FindRemote(remote, id) ==
    remote[CHOOSE i \in 1..Len(remote) :
               /\ getPk(remote[i]) = id
               /\ \A j \in 1..(i-1) : getPk(remote[j]) # id]

\* finalMap: a JavaScript Map, as the sequence of its entries in insertion order.
MapHas(m, k) == \E i \in 1..Len(m) : m[i].k = k

MapSet(m, k, v) ==
    IF MapHas(m, k)
    THEN [ i \in 1..Len(m) |-> IF m[i].k = k THEN [k |-> k, v |-> v] ELSE m[i] ]
    ELSE Append(m, [k |-> k, v |-> v])

MapValues(m) == [ i \in 1..Len(m) |-> m[i].v ]

\* (mutant) the remote record always wins.
LocalWinsNever(localItem, remoteItem) == FALSE

\* (mutant) the comparison without the one-second buffer.
LocalWinsNoBuffer(localItem, remoteItem) ==
    TimeOf(localItem.updated_at) > TimeOf(remoteItem.updated_at)

\* Does the local record win against the remote record with the same key?
LocalWins(localItem, remoteItem) ==
    TimeOf(localItem.updated_at) > TimeOf(remoteItem.updated_at) + MergeBuffer

\* (mutant) a new local record is kept but not marked for push.
MergeLocalStepNoPushNew(st, localItem, remote, deletedSet, tableName) ==
    LET id == getPk(localItem)
        remoteItem == FindRemote(remote, id)
    IN  IF id = "" THEN st
        ELSE IF DelKey(tableName, id) \in deletedSet THEN st
        ELSE IF HasRemote(remote, id)
             THEN IF LocalWins(localItem, remoteItem)
                  THEN [ finalMap |-> MapSet(st.finalMap, id, localItem),
                         toUpsert |-> Append(st.toUpsert, localItem) ]
                  ELSE [ finalMap |-> MapSet(st.finalMap, id, remoteItem),
                         toUpsert |-> st.toUpsert ]
             ELSE [ finalMap |-> MapSet(st.finalMap, id, localItem),
                    toUpsert |-> st.toUpsert ]

\* 1. Process Local Items (one iteration of the first loop).
MergeLocalStep(st, localItem, remote, deletedSet, tableName) ==
    LET id == getPk(localItem)
        remoteItem == FindRemote(remote, id)
    IN  IF id = "" THEN st
        ELSE IF DelKey(tableName, id) \in deletedSet THEN st
        ELSE IF HasRemote(remote, id)
             THEN IF LocalWins(localItem, remoteItem)
                  THEN [ finalMap |-> MapSet(st.finalMap, id, localItem),
                         toUpsert |-> Append(st.toUpsert, localItem) ]
                  ELSE [ finalMap |-> MapSet(st.finalMap, id, remoteItem),
                         toUpsert |-> st.toUpsert ]
             ELSE [ finalMap |-> MapSet(st.finalMap, id, localItem),
                    toUpsert |-> Append(st.toUpsert, localItem) ]

\* (mutant) the second loop without the deleted-key check.
MergeRemoteStepNoDeletedCheck(st, remoteItem, deletedSet, tableName) ==
    LET id == getPk(remoteItem)
    IN  IF id = "" \/ MapHas(st.finalMap, id) THEN st
        ELSE [ st EXCEPT !.finalMap = MapSet(st.finalMap, id, remoteItem) ]

\* 2. Add Remote Items not in finalMap (one iteration of the second loop).
MergeRemoteStep(st, remoteItem, deletedSet, tableName) ==
    LET id == getPk(remoteItem)
    IN  IF id = "" \/ MapHas(st.finalMap, id) THEN st
        ELSE IF DelKey(tableName, id) \notin deletedSet
             THEN [ st EXCEPT !.finalMap = MapSet(st.finalMap, id, remoteItem) ]
             ELSE st

mergeItems(local, remote, deletedSet, tableName) ==
    LET loop1[i \in 0..Len(local)] ==
            IF i = 0 THEN [ finalMap |-> <<>>, toUpsert |-> <<>> ]
            ELSE MergeLocalStep(loop1[i-1], local[i], remote, deletedSet, tableName)
        loop2[i \in 0..Len(remote)] ==
            IF i = 0 THEN loop1[Len(local)]
            ELSE MergeRemoteStep(loop2[i-1], remote[i], deletedSet, tableName)
        fin == loop2[Len(remote)]
    IN  [ merged |-> MapValues(fin.finalMap), toUpsert |-> fin.toUpsert ]

(***************************************************************************)
(* applyDeletionsToLocal                                                   *)
(***************************************************************************)

\* A remote tombstone (sync_deletions row).
Tombstone(t, id, at) == [ table_name |-> t, record_id |-> id, deleted_at |-> at ]

\* deletionMap.get(key): the deleted_at of the last tombstone with that key.
DeletionMapGet(deletions, key) ==
    IF \E i \in 1..Len(deletions) :
            DelKey(deletions[i].table_name, deletions[i].record_id) = key
    THEN deletions[CHOOSE i \in 1..Len(deletions) :
            /\ DelKey(deletions[i].table_name, deletions[i].record_id) = key
            /\ \A j \in (i+1)..Len(deletions) :
                   DelKey(deletions[j].table_name, deletions[j].record_id) # key
         ].deleted_at
    ELSE NoDate

\* filterItems's predicate: false when the record is purged by a tombstone.
KeptByTombstones(item, tableName, deletions) ==
    LET id == IF item.id # Undef THEN item.id ELSE item.name
        deletedAt == DeletionMapGet(deletions, DelKey(tableName, id))
    IN  ~ ( /\ deletedAt # NoDate
            /\ TimeOf(item.updated_at) < deletedAt + TombstoneBuffer )

filterItems(items, tableName, deletions) ==
    SelectSeq(items, LAMBDA item : KeptByTombstones(item, tableName, deletions))

\* The "table:id" keys of the remote tombstones.
TombstoneKeys(deletions) ==
    { DelKey(deletions[i].table_name, deletions[i].record_id) : i \in 1..Len(deletions) }

(***************************************************************************)
(* flattenData / constructData                                             *)
(***************************************************************************)

\* arr.flatMap(x => f(x)) over the parents of a child table: every child of
\* every parent, the parent id injected as the foreign key fk.
FlatChildren(parents, childField, fk) ==
    Flatten([ i \in 1..Len(parents) |->
                [ j \in 1..Len(parents[i][childField]) |->
                    With(parents[i][childField][j], fk, parents[i].id) ] ])

MapWithout(s, f) == [ i \in 1..Len(s) |-> Without(s[i], f) ]

flattenData(data) ==
    LET cases == FlatChildren(data.clients, "cases", "client_id")
        stages == FlatChildren(cases, "stages", "case_id")
        sessions == FlatChildren(stages, "sessions", "stage_id")
        invoice_items == FlatChildren(data.invoices, "items", "invoice_id")
    IN  [ clients |-> MapWithout(data.clients, "cases"),
          cases |-> MapWithout(cases, "stages"),
          stages |-> MapWithout(stages, "sessions"),
          sessions |-> sessions,
          admin_tasks |-> data.adminTasks,
          appointments |-> data.appointments,
          accounting_entries |-> data.accountingEntries,
          assistants |-> [ i \in 1..Len(data.assistants) |-> NameRec(data.assistants[i], "L") ],
          invoices |-> MapWithout(data.invoices, "items"),
          invoice_items |-> invoice_items,
          case_documents |-> data.documents,
          profiles |-> data.profiles,
          site_finances |-> data.siteFinances ]

\* ChildrenOf without the grouping by parent.
ChildrenOfAnyParent(children, fk, parentId) == children

\* map.get(parentId) || []: the children whose foreign key is parentId, in order.
ChildrenOf(children, fk, parentId) ==
    SelectSeq(children, LAMBDA c : c[fk] = parentId)

\* Array.from(new Set(names)).filter(Boolean)
RECURSIVE UniqueNames(_, _)
UniqueNames(names, seen) ==
    IF names = <<>> THEN <<>>
    ELSE IF Head(names) \in seen \/ Head(names) = "" \/ Head(names) = Undef
         THEN UniqueNames(Tail(names), seen)
         ELSE << Head(names) >> \o UniqueNames(Tail(names), seen \cup { Head(names) })

constructData(flatData) ==
    LET stageNodes == [ i \in 1..Len(flatData.stages) |->
            With(flatData.stages[i], "sessions",
                 ChildrenOf(flatData.sessions, "stage_id", flatData.stages[i].id)) ]
        caseNodes == [ i \in 1..Len(flatData.cases) |->
            With(flatData.cases[i], "stages",
                 ChildrenOf(stageNodes, "case_id", flatData.cases[i].id)) ]
    IN  [ clients |-> [ i \in 1..Len(flatData.clients) |->
                With(flatData.clients[i], "cases",
                     ChildrenOf(caseNodes, "client_id", flatData.clients[i].id)) ],
          adminTasks |-> flatData.admin_tasks,
          appointments |-> flatData.appointments,
          accountingEntries |-> flatData.accounting_entries,
          assistants |-> UniqueNames([ i \in 1..Len(flatData.assistants) |->
                                          flatData.assistants[i].name ], {}),
          invoices |-> [ i \in 1..Len(flatData.invoices) |->
                With(flatData.invoices[i], "items",
                     ChildrenOf(flatData.invoice_items, "invoice_id", flatData.invoices[i].id)) ],
          documents |-> flatData.case_documents,
          profiles |-> flatData.profiles,
          siteFinances |-> flatData.site_finances ]

\* A flat data set with every table empty.
EmptyFlat == [ t \in TableSet |-> <<>> ]

(***************************************************************************)
(* transformRemoteToLocal                                                  *)
(***************************************************************************)

\* One remote row as the local flat record of its table: the snake_case
\* columns the table renames become the camelCase fields and leave the record.
RowToLocal(table, r) ==
    IF table \in { "invoices", "accounting_entries" }
    THEN [ r EXCEPT !.clientId = r.client_id, !.client_id = Undef,
                    !.caseId = r.case_id, !.case_id = Undef ]
    ELSE IF table = "case_documents"
    THEN [ r EXCEPT !.caseId = r.case_id, !.case_id = Undef, !.user_id = Undef ]
    ELSE IF table = "assistants"
    THEN NameRec(r.name, r.ver)
    ELSE r

transformRemoteToLocal(remote) ==
    [ t \in TableSet |-> [ i \in 1..Len(remote[t]) |-> RowToLocal(t, remote[t][i]) ] ]

(***************************************************************************)
(* applyDeletionsToLocal (whole)                                           *)
(***************************************************************************)

IdsOf(s) == { s[i].id : i \in 1..Len(s) }

applyDeletionsToLocal(localFlatData, deletions) ==
    IF Len(deletions) = 0 THEN localFlatData
    ELSE
    LET F(t) == filterItems(localFlatData[t], t, deletions)
        clients == F("clients")
        clientIds == IdsOf(clients)
        cases == SelectSeq(F("cases"), LAMBDA c : c.client_id \in clientIds)
        caseIds == IdsOf(cases)
        stages == SelectSeq(F("stages"), LAMBDA x : x.case_id \in caseIds)
        stageIds == IdsOf(stages)
        sessions == SelectSeq(F("sessions"), LAMBDA x : x.stage_id \in stageIds)
        invoices == SelectSeq(F("invoices"), LAMBDA i : i.client_id \in clientIds)
        invoiceIds == IdsOf(invoices)
        invoice_items == SelectSeq(F("invoice_items"), LAMBDA i : i.invoice_id \in invoiceIds)
        case_documents == SelectSeq(F("case_documents"), LAMBDA d : d.caseId \in caseIds)
        accounting_entries == SelectSeq(F("accounting_entries"),
            LAMBDA e : e.clientId = Undef \/ e.clientId = "" \/ e.clientId \in clientIds)
    IN  [ clients |-> clients, cases |-> cases, stages |-> stages, sessions |-> sessions,
          invoices |-> invoices, invoice_items |-> invoice_items,
          case_documents |-> case_documents, accounting_entries |-> accounting_entries,
          admin_tasks |-> F("admin_tasks"),
          appointments |-> F("appointments"),
          assistants |-> F("assistants"),
          site_finances |-> F("site_finances"),
          profiles |-> localFlatData.profiles ]

(***************************************************************************)
(* upsertDataToSupabase                                                    *)
(***************************************************************************)

\* (mutant) the upsert order with the cases before the clients.
UpsertOrderCasesFirst ==
    << "profiles", "assistants", "cases", "clients", "stages", "sessions",
       "invoices", "invoice_items", "case_documents", "admin_tasks",
       "appointments", "accounting_entries", "site_finances" >>

\* The tables in the order upsertDataToSupabase writes them.
UpsertOrder ==
    << "profiles", "assistants", "clients", "cases", "stages", "sessions",
       "invoices", "invoice_items", "case_documents", "admin_tasks",
       "appointments", "accounting_entries", "site_finances" >>

\* (mutant) the orphan filter with the invoices' filter left out.
ParentInWriteSetNoInvoiceFilter(data, table, r) ==
    CASE table = "cases" -> r.client_id \in IdsOf(data.clients)
      [] table = "stages" -> r.case_id \in IdsOf(data.cases)
      [] table = "sessions" -> r.stage_id \in IdsOf(data.stages)
      [] table = "invoice_items" -> r.invoice_id \in IdsOf(data.invoices)
      [] table = "case_documents" -> r.caseId \in IdsOf(data.cases)
      [] OTHER -> TRUE

\* The orphan filter: validClientIds / validCaseIds / validStageIds /
\* validInvoiceIds are the ids of the write set itself.
ParentInWriteSet(data, table, r) ==
    CASE table = "cases" -> r.client_id \in IdsOf(data.clients)
      [] table = "stages" -> r.case_id \in IdsOf(data.cases)
      [] table = "sessions" -> r.stage_id \in IdsOf(data.stages)
      [] table = "invoices" -> r.clientId \in IdsOf(data.clients)
      [] table = "invoice_items" -> r.invoice_id \in IdsOf(data.invoices)
      [] table = "case_documents" -> r.caseId \in IdsOf(data.cases)
      [] OTHER -> TRUE

\* The row sent for a record: the .map(...) of each upsertTable call.
UpsertPayload(table, r, userId) ==
    CASE table = "profiles" -> r
      [] table = "sessions" ->
            [ Rec(r.id, r.updated_at, r.ver) EXCEPT !.user_id = userId, !.stage_id = r.stage_id ]
      [] table \in { "invoices", "accounting_entries" } ->
            [ r EXCEPT !.user_id = userId, !.client_id = r.clientId, !.case_id = r.caseId ]
      [] table = "case_documents" ->
            [ r EXCEPT !.user_id = userId, !.case_id = r.caseId ]
      [] table = "site_finances" -> r
      [] OTHER -> [ r EXCEPT !.user_id = userId ]

\* The records handed to upsertTable for a table.
UpsertBatch(data, table, userId) ==
    LET kept == SelectSeq(data[table], LAMBDA r : ParentInWriteSet(data, table, r))
    IN  [ i \in 1..Len(kept) |-> UpsertPayload(table, kept[i], userId) ]

\* The position in UpsertOrder of the next table at or after position i whose
\* batch is not empty (upsertTable returns [] without a request for an empty
\* batch), or Len(UpsertOrder) + 1.
RECURSIVE NextUpsert(_, _, _)
NextUpsert(data, userId, i) ==
    IF i > Len(UpsertOrder) THEN i
    ELSE IF Len(UpsertBatch(data, UpsertOrder[i], userId)) > 0 THEN i
    ELSE NextUpsert(data, userId, i + 1)

(***************************************************************************)
(* deleteDataFromSupabase and the pending-deletion lists                   *)
(***************************************************************************)

\* The keys of DeletedIds, as manualSync reads them.
DeletedIdKeys ==
    { "clients", "cases", "stages", "sessions", "adminTasks", "appointments",
      "accountingEntries", "assistants", "invoices", "invoiceItems", "documents",
      "documentPaths", "siteFinances" }

getInitialDeletedIds == [ k \in DeletedIdKeys |-> <<>> ]

\* manualSync's dbTable: the table name a DeletedIds key is given in deletedKeys.
dbTable(table) ==
    CASE table = "adminTasks" -> "admin_tasks"
      [] table = "accountingEntries" -> "accounting_entries"
      [] table = "invoiceItems" -> "invoice_items"
      [] table = "siteFinances" -> "site_finances"
      [] OTHER -> table

\* manualSync's deletedKeys: the keys of the remote tombstones and of the
\* locally pending ids.
ManualDeletedKeys(remoteDeletions, ids) ==
    TombstoneKeys(remoteDeletions)
        \cup UNION { { DelKey(dbTable(k), ids[k][i]) : i \in 1..Len(ids[k]) }
                     : k \in DeletedIdKeys }

\* fetchAndRefresh's deletedKeys: the keys of the remote tombstones only.
RefreshDeletedKeys(remoteDeletions) == TombstoneKeys(remoteDeletions)

\* manualSync's flatDeletes: the primary keys to delete, per table.
flatDeletes(ids) ==
    [ t \in TableSet |->
        CASE t = "clients" -> ids.clients
          [] t = "cases" -> ids.cases
          [] t = "stages" -> ids.stages
          [] t = "sessions" -> ids.sessions
          [] t = "admin_tasks" -> ids.adminTasks
          [] t = "appointments" -> ids.appointments
          [] t = "accounting_entries" -> ids.accountingEntries
          [] t = "assistants" -> ids.assistants
          [] t = "invoices" -> ids.invoices
          [] t = "invoice_items" -> ids.invoiceItems
          [] t = "case_documents" -> ids.documents
          [] t = "site_finances" -> ids.siteFinances
          [] OTHER -> <<>> ]

\* (mutant) the deletion order with the parent tables first.
deletionOrderParentsFirst ==
    << "profiles", "site_finances", "clients", "assistants", "accounting_entries",
       "appointments", "admin_tasks", "invoices", "cases", "stages", "sessions",
       "invoice_items", "case_documents" >>

\* The tables in the order deleteDataFromSupabase deletes from them.
deletionOrder ==
    << "case_documents", "invoice_items", "sessions", "stages", "cases", "invoices",
       "admin_tasks", "appointments", "accounting_entries", "assistants", "clients",
       "site_finances", "profiles" >>

\* The position in deletionOrder of the next table at or after position i with
\* something to delete, or Len(deletionOrder) + 1.
RECURSIVE NextDelete(_, _)
NextDelete(deletions, i) ==
    IF i > Len(deletionOrder) THEN i
    ELSE IF Len(deletions[deletionOrder[i]]) > 0 THEN i
    ELSE NextDelete(deletions, i + 1)

\* The tombstones deleteDataFromSupabase logs for a table (none for profiles).
LogEntries(table, ids, at) ==
    IF table = "profiles" THEN <<>>
    ELSE [ i \in 1..Len(ids) |-> Tombstone(table, ids[i], at) ]

\* supabase.from(table).delete().in(pk, ids) on the rows of the table.
DeleteRows(rows, table, ids) ==
    SelectSeq(rows, LAMBDA r :
        (IF table = "assistants" THEN r.name ELSE r.id) \notin Range(ids))

\* supabase.from(table).upsert(records) on the rows of the table: a row with the
\* key of a record is replaced, a record with a new key is appended.
RECURSIVE UpsertRows(_, _)
UpsertRows(rows, records) ==
    IF records = <<>> THEN rows
    ELSE LET r == Head(records)
             k == getPk(r)
             replaced == IF \E i \in 1..Len(rows) : getPk(rows[i]) = k
                         THEN [ i \in 1..Len(rows) |-> IF getPk(rows[i]) = k THEN r ELSE rows[i] ]
                         ELSE Append(rows, r)
         IN  UpsertRows(replaced, Tail(records))

\* handleDeletionsSynced: the new pending lists, computed from the deletedIds of
\* the render the callback was created in.
handleDeletionsSynced(closureIds, syncedDeletions) ==
    [ k \in DeletedIdKeys |->
        IF Len(syncedDeletions[k]) > 0
        THEN SelectSeq(closureIds[k], LAMBDA id : id \notin Range(syncedDeletions[k]))
        ELSE closureIds[k] ]

\* handleDeletionsSynced's `changed`.
DeletionsChanged(syncedDeletions) ==
    \E k \in DeletedIdKeys : Len(syncedDeletions[k]) > 0

(***************************************************************************)
(* validateAndFixData and handleDataSynced                                 *)
(***************************************************************************)

\* `!x` for an id or a name
Falsy(x) == x = Undef \/ x = ""

\* reviveDate: a missing date becomes the current time.
reviveDate(date, now) == IF date = NoDate THEN now ELSE date

\* String(x || '')
StrOrEmpty(x) == IF Falsy(x) THEN "" ELSE x

\* The record a validator rebuilds: the listed fields only.
Revived(r, now) == Rec(r.id, reviveDate(r.updated_at, now), r.ver)

\* safeArray over a list whose entries need an id.
ValidList(list, now) ==
    LET kept == SelectSeq(list, LAMBDA r : ~ Falsy(r.id))
    IN  [ i \in 1..Len(kept) |-> Revived(kept[i], now) ]

\* validateAssistantsList; the default entry stands for the literal the code adds.
DefaultAssistant == "unassigned"

validateAssistantsList(list) ==
    LET names == UniqueNames(list, {})
    IN  IF DefaultAssistant \in Range(names) THEN names ELSE Append(names, DefaultAssistant)

validateDocuments(doc, now) ==
    [ Revived(doc, now) EXCEPT
        !.name = doc.name,
        !.caseId = doc.caseId,
        !.localState = IF doc.localState = Undef THEN "pending_download" ELSE doc.localState ]

DocumentValid(doc) == ~ Falsy(doc.id) /\ ~ Falsy(doc.name)

ValidSessions(stage, clientUserId, now) ==
    LET kept == SelectSeq(stage.sessions, LAMBDA x : ~ Falsy(x.id))
    IN  [ i \in 1..Len(kept) |-> [ Revived(kept[i], now) EXCEPT !.user_id = clientUserId ] ]

ValidStages(caseItem, clientUserId, now) ==
    LET kept == SelectSeq(caseItem.stages, LAMBDA x : ~ Falsy(x.id))
    IN  [ i \in 1..Len(kept) |->
            With([ Revived(kept[i], now) EXCEPT !.user_id = clientUserId ],
                 "sessions", ValidSessions(kept[i], clientUserId, now)) ]

ValidCases(client, now) ==
    LET kept == SelectSeq(client.cases, LAMBDA x : ~ Falsy(x.id))
    IN  [ i \in 1..Len(kept) |->
            With([ Revived(kept[i], now) EXCEPT !.user_id = client.user_id ],
                 "stages", ValidStages(kept[i], client.user_id, now)) ]

ValidClients(list, now) ==
    LET kept == SelectSeq(list, LAMBDA c : ~ Falsy(c.id) /\ ~ Falsy(c.name))
    IN  [ i \in 1..Len(kept) |->
            With([ Revived(kept[i], now) EXCEPT !.name = kept[i].name,
                                                !.user_id = kept[i].user_id ],
                 "cases", ValidCases(kept[i], now)) ]

ValidInvoices(list, now) ==
    LET kept == SelectSeq(list, LAMBDA x : ~ Falsy(x.id))
    IN  [ i \in 1..Len(kept) |->
            With([ Revived(kept[i], now) EXCEPT !.clientId = StrOrEmpty(kept[i].clientId),
                                                !.caseId = kept[i].caseId ],
                 "items", ValidList(kept[i].items, now)) ]

ValidEntries(list, now) ==
    LET kept == SelectSeq(list, LAMBDA x : ~ Falsy(x.id))
    IN  [ i \in 1..Len(kept) |->
            [ Revived(kept[i], now) EXCEPT !.clientId = StrOrEmpty(kept[i].clientId),
                                           !.caseId = StrOrEmpty(kept[i].caseId) ] ]

ValidSiteFinances(list, now) ==
    LET kept == SelectSeq(list, LAMBDA x : ~ Falsy(x.id))
    IN  [ i \in 1..Len(kept) |-> [ Revived(kept[i], now) EXCEPT !.user_id = kept[i].user_id ] ]

ValidDocuments(list, now) ==
    LET kept == SelectSeq(list, LAMBDA d : DocumentValid(d))
    IN  [ i \in 1..Len(kept) |-> validateDocuments(kept[i], now) ]

validateAndFixData(loadedData, now) ==
    [ clients |-> ValidClients(loadedData.clients, now),
      adminTasks |-> ValidList(loadedData.adminTasks, now),
      appointments |-> ValidList(loadedData.appointments, now),
      accountingEntries |-> ValidEntries(loadedData.accountingEntries, now),
      invoices |-> ValidInvoices(loadedData.invoices, now),
      assistants |-> validateAssistantsList(loadedData.assistants),
      documents |-> ValidDocuments(loadedData.documents, now),
      profiles |-> ValidList(loadedData.profiles, now),
      siteFinances |-> ValidSiteFinances(loadedData.siteFinances, now) ]

\* localDocsMetadata.find(meta => meta.id === doc.id)?.localState
MetaStateOf(meta, id) ==
    IF \E i \in 1..Len(meta) : meta[i].id = id
    THEN meta[CHOOSE i \in 1..Len(meta) :
                 meta[i].id = id /\ \A j \in 1..(i-1) : meta[j].id # id].localState
    ELSE Undef

\* (mutant) handleDataSynced without the re-injection of local-only documents.
SyncedDataNoRestore(mergedData, localDocsMetadata, now) ==
    LET validated == validateAndFixData(mergedData, now)
        withState == [ i \in 1..Len(validated.documents) |->
            LET doc == validated.documents[i]
                m == MetaStateOf(localDocsMetadata, doc.id)
            IN  validateDocuments(
                    [ doc EXCEPT !.localState = IF m # Undef THEN m ELSE doc.localState ], now) ]
    IN  [ validated EXCEPT !.documents = withState ]

\* handleDataSynced: the tree it writes to the store and to the state.
SyncedData(mergedData, localDocsMetadata, now) ==
    LET validated == validateAndFixData(mergedData, now)
        syncedDocsIds == IdsOf(validated.documents)
        withState == [ i \in 1..Len(validated.documents) |->
            LET doc == validated.documents[i]
                m == MetaStateOf(localDocsMetadata, doc.id)
            IN  validateDocuments(
                    [ doc EXCEPT !.localState = IF m # Undef THEN m ELSE doc.localState ], now) ]
        restored == SelectSeq(localDocsMetadata, LAMBDA m :
                        /\ m.localState \in { "pending_upload", "error" }
                        /\ m.id \notin syncedDocsIds
                        /\ DocumentValid(m))
        finalDocs == withState \o [ i \in 1..Len(restored) |-> validateDocuments(restored[i], now) ]
    IN  [ validated EXCEPT !.documents = finalDocs ]

(***************************************************************************)
(* manualSync / fetchAndRefresh: the reconciliation of all tables          *)
(***************************************************************************)

\* The merge loop over the tables: mergedFlatData and flatUpserts.
MergeTables(localData, remoteDataRaw, remoteDeletions, deleted) ==
    LET remoteFlatData == transformRemoteToLocal(remoteDataRaw)
        localFlatData == applyDeletionsToLocal(flattenData(localData), remoteDeletions)
        out == [ t \in TableSet |->
                    mergeItems(localFlatData[t], remoteFlatData[t], deleted, t) ]
    IN  [ merged |-> [ t \in TableSet |-> out[t].merged ],
          toUpsert |-> [ t \in TableSet |-> out[t].toUpsert ] ]

\* upsertedMap.get(item.id ?? item.name): the last record with that key among
\* the rows the server returned, whatever their table, the tables being
\* visited in the order of the keys of transformRemoteToLocal's result.
UpsertedList(upsertedFlatData) ==
    Flatten([ i \in 1..Len(Tables) |-> upsertedFlatData[Tables[i]] ])

FoldItem(item, upserted) ==
    LET k == IF item.id # Undef THEN item.id ELSE item.name
        hits == { i \in 1..Len(upserted) :
                     (IF upserted[i].id # Undef THEN upserted[i].id ELSE upserted[i].name) = k }
    IN  IF hits = {} THEN item
        ELSE upserted[CHOOSE i \in hits : \A j \in hits : j <= i]

\* The merged tables after the fold of the server-returned records.
FoldUpserted(mergedFlatData, upsertedDataRaw) ==
    LET upserted == UpsertedList(transformRemoteToLocal(upsertedDataRaw))
    IN  [ t \in TableSet |->
            [ i \in 1..Len(mergedFlatData[t]) |-> FoldItem(mergedFlatData[t][i], upserted) ] ]

(***************************************************************************)
(* Bounds                                                                  *)
(***************************************************************************)

\* Longest local / remote table of the reconciler specification.
MaxLocal == 2
MaxRemote == 2

\* Most records per child table in the write sets of the upsert specification.
MaxBatch == 1

\* Run slots of the orchestrator specification (runs that can overlap), and the
\* number of manualSync / fetchAndRefresh runs started in a behaviour.
MaxRuns == 2
MaxStarts == 3

SeqsUpTo(S, n) == UNION { [1..k -> S] : k \in 0..n }

(***************************************************************************)
(* State                                                                   *)
(***************************************************************************)

VARIABLES
    \* --- reconciliation of one table (SpecMerge) ---
    mPc,          \* "input" | "done"
    mTable,       \* the table being reconciled
    mLocal,       \* the local flat table, as flattenData gives it
    mRemote,      \* the remote flat table, as fetched
    mDeletions,   \* the remote tombstones fetched
    mPending,     \* the locally pending deletion ids of the table
    mFiltered,    \* the local table after the tombstone filter
    mOut          \* mergeItems's result { merged, toUpsert }

mergeVars == << mPc, mTable, mLocal, mRemote, mDeletions, mPending, mFiltered, mOut >>

(***************************************************************************)
(* checkSupabaseSchema                                                     *)
(***************************************************************************)

\* The tables checkSupabaseSchema probes, in the order of tableChecks.
SchemaTables ==
    << "profiles", "clients", "cases", "stages", "sessions", "admin_tasks",
       "appointments", "accounting_entries", "assistants", "invoices",
       "invoice_items", "case_documents", "site_finances", "sync_deletions" >>

\* A probe's result.error: null, or an error with its code and the phrases its
\* lower-cased message includes.
NoError == [ code |-> "", message |-> {} ]
UndefinedTable == [ code |-> "42P01", message |-> { "relation", "does not exist" } ]
PermissionDenied == [ code |-> "42501", message |-> { "permission denied" } ]
FetchFailed == [ code |-> "", message |-> { "failed to fetch" } ]

\* code === '42P01' || message.includes('does not exist') || message.includes('relation')
IsMissingTableError(e) ==
    e.code = "42P01" \/ "does not exist" \in e.message \/ "relation" \in e.message

\* for (const result of results) if (result.error) ...: the position of the
\* first table at or after position i whose probe returned an error, or
\* Len(SchemaTables) + 1.
RECURSIVE FirstError(_, _)
FirstError(probes, i) ==
    IF i > Len(SchemaTables) THEN i
    ELSE IF probes[SchemaTables[i]] # NoError THEN i
    ELSE FirstError(probes, i + 1)

checkSupabaseSchema(client, probes) ==
    IF client = "none"
    THEN [ success |-> FALSE, error |-> "unconfigured", table |-> Undef ]
    ELSE LET i == FirstError(probes, 1)
         IN  IF i > Len(SchemaTables)
             THEN [ success |-> TRUE, error |-> Undef, table |-> Undef ]
             ELSE IF IsMissingTableError(probes[SchemaTables[i]])
                  THEN [ success |-> FALSE, error |-> "uninitialized", table |-> SchemaTables[i] ]
                  ELSE [ success |-> FALSE, error |-> "unknown", table |-> Undef ]

\* The status manualSync sets after the check.
StatusAfterSchemaCheck(schemaCheck) ==
    IF schemaCheck.success THEN "syncing"
    ELSE IF schemaCheck.error = "unconfigured" THEN "unconfigured"
    ELSE IF schemaCheck.error = "uninitialized" THEN "uninitialized"
    ELSE "error"

VARIABLES
    \* --- one call of upsertDataToSupabase (SpecUpsert) ---
    uPc,          \* "run" | "returned" | "thrown"
    uData,        \* the write set (flatUpserts)
    uIdx,         \* position in UpsertOrder of the next upsertTable call
    uSent         \* the requests issued: << [table, records] >>

upsertVars == << uPc, uData, uIdx, uSent >>

VARIABLES
    \* --- one flattenData / constructData round trip (SpecMapper) ---
    tPc,          \* "input" | "flat" | "done" | "merged" | "published"
    tTree,        \* the AppData tree passed to flattenData
    tFlat,        \* flattenData(tTree)
    tBack         \* constructData(tFlat)

mapVars == << tPc, tTree, tFlat, tBack >>

VARIABLES
    \* --- one call of deleteDataFromSupabase (SpecDelete) ---
    dPc,          \* "run" | "logged" | "returned" | "thrown"
    dDeletions,   \* the primary keys to delete, per table
    dIdx,         \* position in deletionOrder of the next table
    dSent         \* the requests issued: << [op, table, ids, ok] >>

delVars == << dPc, dDeletions, dIdx, dSent >>

VARIABLES
    \* --- one checkSupabaseSchema call and manualSync's report (SpecSchema) ---
    sPc,          \* "probe" | "checked" | "reported"
    sClient,      \* "configured" | "none": getSupabaseClient()
    sProbes,      \* the result of the probe of each table: its error, or NoError
    sResult,      \* what checkSupabaseSchema returned
    sStatus       \* the status manualSync set after the check

schemaVars == << sPc, sClient, sProbes, sResult, sStatus >>

VARIABLES
    \* --- the documents and their blobs (SpecDocs) ---
    documents,    \* the documents' metadata, in memory and in the metadata store
    docFiles,     \* the ids whose blob is in the local files store
    bucket,       \* the paths of the blobs in the remote 'documents' bucket
    docOnline,    \* isOnline
    uploadTimer,  \* is the upload effect's 2 s timer armed?
    uploads,      \* the uploadNext calls awaiting their upload: << pendingDoc >>
    downloads,    \* the getDocumentFile calls awaiting their download: << [version, id, storagePath] >>
    sweep,        \* the cleanupCloudStorage call: its expiredDocs still to do
    dayPassed,    \* are the documents' addedAt more than 24 hours old?
    response      \* the last response of the remote bucket: [op, id, result]

docVars == << documents, docFiles, bucket, docOnline, uploadTimer, uploads,
              downloads, sweep, dayPassed, response >>

VARIABLES
    \* --- the host hook and the remote store (SpecSync) ---
    data,              \* useSupabaseData: the in-memory AppData tree
    stored,            \* the tree persisted in the local store
    deletedIds,        \* the pending-deletion lists
    isDirty,
    syncStatus,
    lastSyncError,
    isOnline,
    isAuthLoading,
    localDocsMetadata, \* the document metadata store
    now,               \* the clock
    supabaseClient,    \* "configured" | "none": getSupabaseClient()
    remoteSchema,      \* "provisioned" | "missing": is an expected table missing?
    remoteTables,      \* the rows of the remote tables
    syncDeletions,     \* the rows of the remote sync_deletions table
    storage,           \* the paths of the blobs in the remote bucket
    runs,              \* the manualSync / fetchAndRefresh calls, by slot
    starts             \* runs started so far

hostVars == << data, stored, deletedIds, isDirty, syncStatus, lastSyncError,
               isOnline, isAuthLoading, localDocsMetadata, now >>

remoteVars == << supabaseClient, remoteSchema, remoteTables, syncDeletions, storage >>

syncVars == << hostVars, remoteVars, runs, starts >>

vars == << mergeVars, upsertVars, mapVars, delVars, schemaVars, docVars, syncVars >>

\* What the actions of one specification leave alone: the variables of the others.
notMergeVars == << upsertVars, mapVars, delVars, schemaVars, docVars, syncVars >>
notUpsertVars == << mergeVars, mapVars, delVars, schemaVars, docVars, syncVars >>
notMapVars == << mergeVars, upsertVars, delVars, schemaVars, docVars, syncVars >>
notDelVars == << mergeVars, upsertVars, mapVars, schemaVars, docVars, syncVars >>
notSchemaVars == << mergeVars, upsertVars, mapVars, delVars, docVars, syncVars >>
notDocVars == << mergeVars, upsertVars, mapVars, delVars, schemaVars, syncVars >>
notSyncVars == << mergeVars, upsertVars, mapVars, delVars, schemaVars, docVars >>

(***************************************************************************)
(* SpecMerge: one table through the tombstone filter and mergeItems        *)
(***************************************************************************)

MKeys == { "1", "2" }
MLocalTimes == { NoDate, 1001, 2500 }
MRemoteTimes == { NoDate, 1500 }
MDeletedAts == { 0, 500 }

MLocalRecs(t) ==
    IF t = "assistants"
    THEN { NameRec(k, "L") : k \in MKeys }
    ELSE { Rec(k, u, "L") : k \in MKeys, u \in MLocalTimes } \cup { Rec(Undef, 1001, "L") }

MRemoteRecs(t) ==
    IF t = "assistants"
    THEN { NameRec(k, "R") : k \in MKeys }
    ELSE { Rec(k, u, "R") : k \in MKeys, u \in MRemoteTimes }

MergeIdle ==
    /\ mPc = "idle" /\ mTable = "clients" /\ mLocal = <<>> /\ mRemote = <<>>
    /\ mDeletions = <<>> /\ mPending = {} /\ mFiltered = <<>>
    /\ mOut = [ merged |-> <<>>, toUpsert |-> <<>> ]

UpsertIdle ==
    /\ uPc = "idle" /\ uData = EmptyFlat /\ uIdx = 1 /\ uSent = <<>>

\* An AppData tree with every list empty.
NoData ==
    [ clients |-> <<>>, adminTasks |-> <<>>, appointments |-> <<>>,
      accountingEntries |-> <<>>, invoices |-> <<>>, assistants |-> <<>>,
      documents |-> <<>>, profiles |-> <<>>, siteFinances |-> <<>> ]

MapIdle ==
    /\ tPc = "idle" /\ tTree = NoData /\ tFlat = EmptyFlat /\ tBack = NoData

DelIdle ==
    /\ dPc = "idle" /\ dDeletions = EmptyFlat /\ dIdx = 1 /\ dSent = <<>>

SchemaIdle ==
    /\ sPc = "idle" /\ sClient = "none" /\ sProbes = <<>>
    /\ sResult = Undef /\ sStatus = Undef

NoResponse == [ op |-> "none", id |-> Undef, result |-> Undef ]

DocsIdle ==
    /\ documents = <<>> /\ docFiles = {} /\ bucket = {} /\ docOnline = FALSE
    /\ uploadTimer = FALSE /\ uploads = <<>> /\ downloads = <<>>
    /\ sweep = [ pc |-> "idle", expiredDocs |-> <<>> ]
    /\ dayPassed = FALSE /\ response = NoResponse

\* A slot with no call in it.
IdleRun ==
    [ pc |-> "idle", kind |-> "none", localData |-> NoData,
      deletedIds |-> getInitialDeletedIds, remoteDeletions |-> <<>>,
      mergedFlatData |-> EmptyFlat, plan |-> [ upserts |-> EmptyFlat, deletes |-> EmptyFlat, paths |-> <<>> ],
      successfulDeletions |-> getInitialDeletedIds, idx |-> 1,
      upserted |-> EmptyFlat, published |-> NoData ]

Slots == 1..MaxRuns

SyncIdle ==
    /\ data = NoData /\ stored = NoData /\ deletedIds = getInitialDeletedIds
    /\ isDirty = FALSE /\ syncStatus = "loading" /\ lastSyncError = Undef
    /\ isOnline = FALSE /\ isAuthLoading = FALSE /\ localDocsMetadata = <<>>
    /\ now = 0 /\ supabaseClient = "none" /\ remoteSchema = "provisioned"
    /\ remoteTables = EmptyFlat
    /\ syncDeletions = <<>> /\ storage = {}
    /\ runs = [ s \in Slots |-> IdleRun ] /\ starts = 0

InitMerge ==
    /\ UpsertIdle
    /\ MapIdle
    /\ DelIdle
    /\ SchemaIdle
    /\ DocsIdle
    /\ SyncIdle
    /\ mPc = "input"
    /\ mTable \in { "clients", "assistants" }
    /\ mLocal \in SeqsUpTo(MLocalRecs(mTable), MaxLocal)
    /\ mRemote \in SeqsUpTo(MRemoteRecs(mTable), MaxRemote)
    /\ mDeletions \in
          { s \in SeqsUpTo({ Tombstone(mTable, k, d) : k \in MKeys, d \in MDeletedAts }, 2) :
                \A i, j \in 1..Len(s) : i # j => s[i].record_id # s[j].record_id }
    /\ mPending \in SUBSET MKeys
    /\ mFiltered = <<>>
    /\ mOut = [ merged |-> <<>>, toUpsert |-> <<>> ]

\* The deleted keys manualSync hands to mergeItems for the table: the remote
\* tombstones plus the locally pending ids.
MDeletedKeys == TombstoneKeys(mDeletions) \cup { DelKey(mTable, k) : k \in mPending }

MergeTable ==
    /\ mPc = "input"
    /\ LET filtered == IF Len(mDeletions) = 0 THEN mLocal
                        ELSE filterItems(mLocal, mTable, mDeletions)
       IN  /\ mFiltered' = filtered
           /\ mOut' = mergeItems(filtered, mRemote, MDeletedKeys, mTable)
    /\ mPc' = "done"
    /\ UNCHANGED << mTable, mLocal, mRemote, mDeletions, mPending >>
    /\ UNCHANGED notMergeVars

NextMerge == MergeTable

SpecMerge == InitMerge /\ [][NextMerge]_vars

(***************************************************************************)
(* SpecUpsert: one call of upsertDataToSupabase                            *)
(***************************************************************************)

UserId == "u1"

\* A record of a child table with its foreign key set.
ChildRec(id, fkField, fk) == [ Rec(id, 1000, "L") EXCEPT ![fkField] = fk ]

\* The tables of up to MaxBatch records with the keys p1, p2, ... (a table's
\* keys are unique) and foreign keys drawn from fks.
ChildTablesOf(p, fkField, fks) ==
    UNION { { [ i \in 1..n |-> ChildRec(p \o ToString(i), fkField, f[i]) ] : f \in [1..n -> fks] }
            : n \in 0..MaxBatch }

InitUpsert ==
    /\ MergeIdle
    /\ MapIdle
    /\ DelIdle
    /\ SchemaIdle
    /\ DocsIdle
    /\ SyncIdle
    /\ uPc = "run"
    /\ uIdx = 1
    /\ uSent = <<>>
    /\ \E cl \in { <<>>, << Rec("c1", 1000, "L") >>, << Rec("c2", 1000, "L") >>,
                    << Rec("c1", 1000, "L"), Rec("c2", 1000, "L") >> },
          cs \in ChildTablesOf("k", "client_id", { "c1", "c2" }),
          st \in ChildTablesOf("s", "case_id", { "k1", "k2" }),
          se \in ChildTablesOf("x", "stage_id", { "s1", "s2" }),
          iv \in ChildTablesOf("i", "clientId", { "c1", "c2" }),
          it \in ChildTablesOf("j", "invoice_id", { "i1", "i2" }),
          dc \in ChildTablesOf("d", "caseId", { "k1", "k2" }),
          at \in SeqsUpTo({ Rec("t1", 1000, "L") }, 1) :
          uData = [ EmptyFlat EXCEPT !.clients = cl, !.cases = cs, !.stages = st,
                                     !.sessions = se, !.invoices = iv,
                                     !.invoice_items = it, !.case_documents = dc,
                                     !.admin_tasks = at ]

\* upsertTable for the next table with a non-empty batch succeeds; the empty
\* batches before it return [] with no request.  After the last table the call
\* returns.
UpsertTableOk ==
    /\ uPc = "run"
    /\ LET i == NextUpsert(uData, UserId, uIdx)
       IN  IF i > Len(UpsertOrder)
           THEN /\ uPc' = "returned"
                /\ uIdx' = i
                /\ UNCHANGED uSent
           ELSE /\ uSent' = Append(uSent, [ table |-> UpsertOrder[i],
                                            records |-> UpsertBatch(uData, UpsertOrder[i], UserId) ])
                /\ uIdx' = i + 1
                /\ UNCHANGED uPc
    /\ UNCHANGED uData
    /\ UNCHANGED notUpsertVars

\* The request of the next non-empty batch returns an error: upsertTable throws.
UpsertTableFails ==
    /\ uPc = "run"
    /\ LET i == NextUpsert(uData, UserId, uIdx)
       IN  /\ i <= Len(UpsertOrder)
           /\ uSent' = Append(uSent, [ table |-> UpsertOrder[i],
                                       records |-> UpsertBatch(uData, UpsertOrder[i], UserId) ])
           /\ uIdx' = i
           /\ uPc' = "thrown"
    /\ UNCHANGED uData
    /\ UNCHANGED notUpsertVars

NextUpsertCall == UpsertTableOk \/ UpsertTableFails

SpecUpsert == InitUpsert /\ [][NextUpsertCall]_vars

(***************************************************************************)
(* SpecMapper: one tree through flattenData and back through constructData *)
(***************************************************************************)

\* The ids a tree is drawn from, per level, in list order.
TClients == << "c1", "c2" >>
TCases == << "k1", "k2" >>
TStages == << "s1", "s2" >>
TSessions == << "x1" >>
TInvoices == << "i1" >>
TItems == << "j1", "j2" >>
Absent == "absent"

Reverse(s) == [ i \in 1..Len(s) |-> s[Len(s) + 1 - i] ]

\* The ids of order (reversed when rev) that assign places under parent.
Picked(order, rev, assign, parent) ==
    SelectSeq(IF rev THEN Reverse(order) ELSE order, LAMBDA k : assign[k] = parent)

\* A node of the tree; with withFk it carries its parent's id in fkField, as a
\* node built by constructData does, without it the field is absent, as in a
\* node rebuilt by validateAndFixData.
TreeNode(id, fkField, parent, withFk) ==
    IF withFk THEN [ Rec(id, 1000, "L") EXCEPT ![fkField] = parent ] ELSE Rec(id, 1000, "L")

\* The well-formed tree (unique ids, every child nested under its parent) with
\* the clients cs, the cases placed by ca, the stages by sa, the sessions by
\* xa, the invoices iv and the items placed by ja.
BuildTree(cs, ca, sa, xa, iv, ja, withFk, rev) ==
    LET sessionsOf(s) ==
            LET ids == Picked(TSessions, rev, xa, s)
            IN  [ i \in 1..Len(ids) |-> TreeNode(ids[i], "stage_id", s, withFk) ]
        stagesOf(k) ==
            LET ids == Picked(TStages, rev, sa, k)
            IN  [ i \in 1..Len(ids) |->
                    With(TreeNode(ids[i], "case_id", k, withFk), "sessions", sessionsOf(ids[i])) ]
        casesOf(c) ==
            LET ids == Picked(TCases, rev, ca, c)
            IN  [ i \in 1..Len(ids) |->
                    With(TreeNode(ids[i], "client_id", c, withFk), "stages", stagesOf(ids[i])) ]
        itemsOf(v) ==
            LET ids == Picked(TItems, rev, ja, v)
            IN  [ i \in 1..Len(ids) |-> TreeNode(ids[i], "invoice_id", v, withFk) ]
        clientIds == SelectSeq(IF rev THEN Reverse(TClients) ELSE TClients, LAMBDA c : c \in cs)
        invoiceIds == SelectSeq(TInvoices, LAMBDA v : v \in iv)
    IN  [ NoData EXCEPT
            !.clients = [ i \in 1..Len(clientIds) |->
                With(Rec(clientIds[i], 1000, "L"), "cases", casesOf(clientIds[i])) ],
            !.invoices = [ i \in 1..Len(invoiceIds) |->
                With(Rec(invoiceIds[i], 1000, "L"), "items", itemsOf(invoiceIds[i])) ],
            !.adminTasks = << Rec("t1", 1000, "L") >>,
            !.assistants = << DefaultAssistant >> ]

InitMapper ==
    /\ MergeIdle
    /\ UpsertIdle
    /\ DelIdle
    /\ SchemaIdle
    /\ DocsIdle
    /\ SyncIdle
    /\ tPc = "input"
    /\ \E cs \in SUBSET Range(TClients), iv \in SUBSET Range(TInvoices),
          ca \in [ Range(TCases) -> Range(TClients) \cup { Absent } ],
          sa \in [ Range(TStages) -> Range(TCases) \cup { Absent } ],
          xa \in [ Range(TSessions) -> Range(TStages) \cup { Absent } ],
          ja \in [ Range(TItems) -> Range(TInvoices) \cup { Absent } ],
          withFk \in BOOLEAN, rev \in BOOLEAN :
            tTree = BuildTree(cs, ca, sa, xa, iv, ja, withFk, rev)
    /\ tFlat = EmptyFlat
    /\ tBack = NoData

\* flattenData(data)
FlattenTree ==
    /\ tPc = "input"
    /\ tFlat' = flattenData(tTree)
    /\ tPc' = "flat"
    /\ UNCHANGED << tTree, tBack, notMapVars >>

\* constructData(flatData)
ConstructTree ==
    /\ tPc = "flat"
    /\ tBack' = constructData(tFlat)
    /\ tPc' = "done"
    /\ UNCHANGED << tTree, tFlat, notMapVars >>

\* The tables a child table refers to.
ParentTables == { "clients", "cases", "stages", "invoices" }

\* The merge drops one record of a parent table (its key is in deletedKeys)
\* and keeps the records that refer to it: mergeItems works table by table.
DropParent ==
    /\ tPc = "flat"
    /\ \E t \in ParentTables : \E i \in 1..Len(tFlat[t]) :
          tFlat' = [ tFlat EXCEPT ![t] = SubSeq(@, 1, i - 1) \o SubSeq(@, i + 1, Len(@)) ]
    /\ tPc' = "merged"
    /\ UNCHANGED << tTree, tBack, notMapVars >>

\* constructData(mergedFlatData)
ConstructMerged ==
    /\ tPc = "merged"
    /\ tBack' = constructData(tFlat)
    /\ tPc' = "published"
    /\ UNCHANGED << tTree, tFlat, notMapVars >>

NextMapper == FlattenTree \/ ConstructTree \/ DropParent \/ ConstructMerged

SpecMapper == InitMapper /\ [][NextMapper]_vars

(***************************************************************************)
(* SpecDelete: one call of deleteDataFromSupabase                          *)
(***************************************************************************)

\* The most tables with something to delete in one call.
MaxDelTables == 3

InitDelete ==
    /\ MergeIdle
    /\ UpsertIdle
    /\ MapIdle
    /\ SchemaIdle
    /\ DocsIdle
    /\ SyncIdle
    /\ dPc = "run"
    /\ dIdx = 1
    /\ dSent = <<>>
    /\ \E ts \in SUBSET TableSet :
          /\ Cardinality(ts) <= MaxDelTables
          /\ dDeletions = [ t \in TableSet |-> IF t \in ts THEN << "a" >> ELSE <<>> ]

\* (mutant) a failed insert of the tombstones ends the call.
AfterLogInsertThrowing(ok) == IF ok THEN "logged" ELSE "thrown"

\* supabase.from('sync_deletions').insert(logEntries).select().catch(() => {}):
\* the call goes on to the delete whatever the insert returned.
AfterLogInsert(ok) == "logged"

\* Is the delete of the table at position i the call's next request?  It is
\* once the tombstones of the table were sent, and at once for profiles.
DeleteIsNext(i) ==
    /\ i <= Len(deletionOrder)
    /\ dPc = "logged" \/ (dPc = "run" /\ deletionOrder[i] = "profiles")

\* The tombstones of the next table with something to delete are inserted in
\* sync_deletions, one per id; the insert succeeds or fails.
LogDeletions ==
    /\ dPc = "run"
    /\ LET i == NextDelete(dDeletions, dIdx)
       IN  /\ i <= Len(deletionOrder)
           /\ deletionOrder[i] # "profiles"
           /\ \E ok \in BOOLEAN :
                 /\ dSent' = Append(dSent, [ op |-> "insert", table |-> deletionOrder[i],
                                             ids |-> dDeletions[deletionOrder[i]], ok |-> ok ])
                 /\ dPc' = AfterLogInsert(ok)
           /\ dIdx' = i
    /\ UNCHANGED dDeletions
    /\ UNCHANGED notDelVars

\* The delete of the next table with something to delete succeeds; the tables
\* with nothing to delete are passed over with no request.  After the last
\* table the call returns.
DeleteCallOk ==
    /\ LET i == NextDelete(dDeletions, dIdx)
       IN  IF dPc = "run" /\ i > Len(deletionOrder)
           THEN /\ dPc' = "returned"
                /\ dIdx' = i
                /\ UNCHANGED dSent
           ELSE /\ DeleteIsNext(i)
                /\ dSent' = Append(dSent, [ op |-> "delete", table |-> deletionOrder[i],
                                            ids |-> dDeletions[deletionOrder[i]], ok |-> TRUE ])
                /\ dIdx' = i + 1
                /\ dPc' = "run"
    /\ UNCHANGED dDeletions
    /\ UNCHANGED notDelVars

\* The delete of the next table returns an error: the call throws.
DeleteCallFails ==
    /\ LET i == NextDelete(dDeletions, dIdx)
       IN  /\ DeleteIsNext(i)
           /\ dSent' = Append(dSent, [ op |-> "delete", table |-> deletionOrder[i],
                                       ids |-> dDeletions[deletionOrder[i]], ok |-> FALSE ])
           /\ dIdx' = i
           /\ dPc' = "thrown"
    /\ UNCHANGED dDeletions
    /\ UNCHANGED notDelVars

NextDeleteCall == LogDeletions \/ DeleteCallOk \/ DeleteCallFails

SpecDelete == InitDelete /\ [][NextDeleteCall]_vars

(***************************************************************************)
(* SpecSchema: one schema check of manualSync                              *)
(***************************************************************************)

\* The most probes that return an error in one check.
MaxFailing == 2

ProbeErrors == { UndefinedTable, PermissionDenied, FetchFailed }

InitSchema ==
    /\ MergeIdle
    /\ UpsertIdle
    /\ MapIdle
    /\ DelIdle
    /\ DocsIdle
    /\ SyncIdle
    /\ sPc = "probe"
    /\ sClient \in { "configured", "none" }
    /\ \E failing \in SUBSET Range(SchemaTables) :
          /\ Cardinality(failing) <= MaxFailing
          /\ sClient = "none" => failing = {}
          /\ \E errs \in [ failing -> ProbeErrors ] :
                sProbes = [ t \in Range(SchemaTables) |->
                              IF t \in failing THEN errs[t] ELSE NoError ]
    /\ sResult = Undef
    /\ sStatus = Undef

\* const schemaCheck = await checkSupabaseSchema()
CheckSchema ==
    /\ sPc = "probe"
    /\ sResult' = checkSupabaseSchema(sClient, sProbes)
    /\ sPc' = "checked"
    /\ UNCHANGED << sClient, sProbes, sStatus, notSchemaVars >>

\* manualSync sets the status the check calls for.
ReportSchema ==
    /\ sPc = "checked"
    /\ sStatus' = StatusAfterSchemaCheck(sResult)
    /\ sPc' = "reported"
    /\ UNCHANGED << sClient, sProbes, sResult, notSchemaVars >>

NextSchema == CheckSchema \/ ReportSchema

SpecSchema == InitSchema /\ [][NextSchema]_vars

(***************************************************************************)
(* The documents: addDocuments, the upload effect, getDocumentFile and    *)
(* cleanupCloudStorage over the metadata store, the files store and the   *)
(* remote bucket                                                           *)
(***************************************************************************)

\* A document's metadata.
Doc(id, localState, storagePath) ==
    [ id |-> id, localState |-> localState, storagePath |-> storagePath ]

\* `${userId}/${caseId}/${docId}${extension}`
StoragePathOf(id) == "path/" \o id

\* Is there a document with the id?
HasDoc(docs, id) == \E i \in 1..Len(docs) : docs[i].id = id

\* p.documents.map(d => d.id === doc.id ? doc : d)
ReplaceDoc(docs, doc) ==
    [ i \in 1..Len(docs) |-> IF docs[i].id = doc.id THEN doc ELSE docs[i] ]

\* p.documents.map(d => d.id === id ? { ...d, localState } : d)
SetDocState(docs, id, localState) ==
    [ i \in 1..Len(docs) |->
        IF docs[i].id = id THEN [ docs[i] EXCEPT !.localState = localState ] ELSE docs[i] ]

\* (mutant) the upload effect's pick, retrying the documents in 'error'.
PendingUploadsWithRetry(docs) ==
    SelectSeq(docs, LAMBDA d : d.localState \in { "pending_upload", "error" } /\ d.storagePath # "")

\* The documents the upload effect's find() goes through:
\* d.localState === 'pending_upload' && d.storagePath
PendingUploads(docs) ==
    SelectSeq(docs, LAMBDA d : d.localState = "pending_upload" /\ d.storagePath # "")

\* (mutant) the retention filter, keeping nothing.
expiredDocsNone(allDocs, old) == <<>>

\* cleanupCloudStorage's filter: isOld && doc.localState === 'synced'
expiredDocs(allDocs, old) ==
    SelectSeq(allDocs, LAMBDA d : old /\ d.localState = "synced")

\* The state the first getDocumentFile leaves after a failed download: its
\* catch block persists 'error' whatever the error.
DownloadFailureState1(result) == "error"

\* The state the second getDocumentFile leaves after a failed download:
\* 'expired' for "Object not found" / 404 and, while online, for an error
\* object with no keys; 'error' otherwise.
DownloadFailureState2(result, online) ==
    IF result = "not found" THEN "expired"
    ELSE IF result = "empty error" /\ online THEN "expired"
    ELSE "error"

(***************************************************************************)
(* SpecDocs: the documents' lifecycle                                      *)
(***************************************************************************)

\* The most uploadNext calls, and getDocumentFile calls, awaiting the bucket.
MaxUploads == 2
MaxDownloads == 2

\* The document addDocuments adds, the device's document awaiting its upload
\* and the document received from another device.
NewDocId == "d1"
OwnDocId == "d2"
RemoteDocId == "d3"

DownloadErrors == { "not found", "network", "empty error" }

InitDocs ==
    /\ MergeIdle
    /\ UpsertIdle
    /\ MapIdle
    /\ DelIdle
    /\ SchemaIdle
    /\ SyncIdle
    /\ \E ownPath \in { StoragePathOf(OwnDocId), "" } :
       \E remoteState \in { "pending_download", "archived" } :
          /\ documents = << Doc(OwnDocId, "pending_upload", ownPath),
                            Doc(RemoteDocId, remoteState, StoragePathOf(RemoteDocId)) >>
          /\ bucket \in IF remoteState = "archived" THEN { {} }
                         ELSE { {}, { StoragePathOf(RemoteDocId) } }
    /\ docFiles \in { {}, { OwnDocId } }
    /\ docOnline \in BOOLEAN
    /\ uploadTimer = docOnline
    /\ uploads = <<>>
    /\ downloads = <<>>
    /\ sweep = [ pc |-> "idle", expiredDocs |-> <<>> ]
    /\ dayPassed = FALSE
    /\ response = NoResponse

\* addDocuments with one file: the blob and the metadata are stored and the
\* document joins the list in 'pending_upload'; the upload effect runs again.
AddDocuments ==
    /\ ~ HasDoc(documents, NewDocId)
    /\ documents' = Append(documents, Doc(NewDocId, "pending_upload", StoragePathOf(NewDocId)))
    /\ docFiles' = docFiles \cup { NewDocId }
    /\ uploadTimer' = docOnline
    /\ response' = NoResponse
    /\ UNCHANGED << bucket, docOnline, uploads, downloads, sweep, dayPassed >>
    /\ UNCHANGED notDocVars

\* The device goes online or offline; the upload effect runs again.
ConnectivityChanges ==
    /\ docOnline' = ~ docOnline
    /\ uploadTimer' = docOnline'
    /\ response' = NoResponse
    /\ UNCHANGED << documents, docFiles, bucket, uploads, downloads, sweep, dayPassed >>
    /\ UNCHANGED notDocVars

\* The documents' addedAt becomes more than 24 hours old.
DayPasses ==
    /\ ~ dayPassed
    /\ dayPassed' = TRUE
    /\ response' = NoResponse
    /\ UNCHANGED << documents, docFiles, bucket, docOnline, uploadTimer, uploads,
                    downloads, sweep >>
    /\ UNCHANGED notDocVars

\* The upload effect's timer fires: uploadNext finds the first pending
\* document; with its blob missing from the files store the document is set to
\* 'error', otherwise the upload is started.
UploadNext ==
    /\ uploadTimer
    /\ Len(uploads) < MaxUploads
    /\ response' = NoResponse
    /\ LET pending == PendingUploads(documents)
       IN  IF pending = <<>>
           THEN /\ uploadTimer' = FALSE
                /\ UNCHANGED << documents, uploads >>
           ELSE LET pendingDoc == Head(pending)
                IN  IF pendingDoc.id \notin docFiles
                    THEN /\ documents' = ReplaceDoc(documents, [ pendingDoc EXCEPT !.localState = "error" ])
                         /\ uploadTimer' = docOnline
                         /\ UNCHANGED uploads
                    ELSE /\ uploads' = Append(uploads, pendingDoc)
                         /\ uploadTimer' = FALSE
                         /\ UNCHANGED documents
    /\ UNCHANGED << docFiles, bucket, docOnline, downloads, sweep, dayPassed >>
    /\ UNCHANGED notDocVars

\* Drop the i-th element of a sequence.
RemoveAt(s, i) == SubSeq(s, 1, i - 1) \o SubSeq(s, i + 1, Len(s))

\* storage.upload(pendingDoc.storagePath, file, { upsert: true }) succeeds.
UploadOk ==
    \E i \in 1..Len(uploads) :
        LET pendingDoc == uploads[i]
        IN  /\ docOnline
            /\ bucket' = bucket \cup { pendingDoc.storagePath }
            /\ documents' = ReplaceDoc(documents, [ pendingDoc EXCEPT !.localState = "synced" ])
            /\ uploads' = RemoveAt(uploads, i)
            /\ uploadTimer' = docOnline
            /\ response' = [ op |-> "upload", id |-> pendingDoc.id, result |-> "ok" ]
            /\ UNCHANGED << docFiles, docOnline, downloads, sweep, dayPassed >>
            /\ UNCHANGED notDocVars

\* The upload returns an error.
UploadFails ==
    \E i \in 1..Len(uploads) :
        LET pendingDoc == uploads[i]
        IN  /\ documents' = ReplaceDoc(documents, [ pendingDoc EXCEPT !.localState = "error" ])
            /\ uploads' = RemoveAt(uploads, i)
            /\ uploadTimer' = docOnline
            /\ response' = [ op |-> "upload", id |-> pendingDoc.id, result |-> "error" ]
            /\ UNCHANGED << docFiles, bucket, docOnline, downloads, sweep, dayPassed >>
            /\ UNCHANGED notDocVars

\* getDocumentFile of the first hook, up to its download: nothing to do with
\* the blob in the files store, offline, or in another state than
\* 'pending_download' / 'error'; 'error' for a document with no storagePath.
getDocumentFile1(doc) ==
    /\ doc.id \notin docFiles
    /\ docOnline
    /\ Len(downloads) < MaxDownloads
    /\ response' = NoResponse
    /\ IF doc.storagePath = ""
       THEN /\ documents' = SetDocState(documents, doc.id, "error")
            /\ UNCHANGED downloads
       ELSE /\ doc.localState \in { "pending_download", "error" }
            /\ documents' = SetDocState(documents, doc.id, "downloading")
            /\ downloads' = Append(downloads, [ version |-> 1, id |-> doc.id, storagePath |-> doc.storagePath ])
    /\ uploadTimer' = docOnline
    /\ UNCHANGED << docFiles, bucket, docOnline, uploads, sweep, dayPassed >>
    /\ UNCHANGED notDocVars

\* The screen asks for a document's file (first hook).
GetDocumentFile1 ==
    \E i \in 1..Len(documents) : getDocumentFile1(documents[i])

\* data.documents.some(d => d.localState === 'downloading')
isDownloading(docs) == \E i \in 1..Len(docs) : docs[i].localState = "downloading"

\* The documents the auto-download effect's find() goes through.
PendingDownloads(docs) == SelectSeq(docs, LAMBDA d : d.localState = "pending_download")

\* The auto-download effect's timer fires: the effect armed it online, with no
\* document in 'downloading', for the first document in 'pending_download'.
AutoDownload ==
    /\ docOnline
    /\ ~ isDownloading(documents)
    /\ PendingDownloads(documents) # <<>>
    /\ getDocumentFile1(Head(PendingDownloads(documents)))

\* getDocumentFile of the second hook, up to its download: with the blob in
\* the files store the document is set to 'synced' unless 'synced' or
\* 'archived'; offline it is set to 'pending_download'; online the download is
\* started.
GetDocumentFile2 ==
    \E i \in 1..Len(documents) :
        LET doc == documents[i]
        IN  /\ response' = NoResponse
            /\ IF doc.id \in docFiles
               THEN /\ doc.localState \notin { "synced", "archived" }
                    /\ documents' = SetDocState(documents, doc.id, "synced")
                    /\ UNCHANGED downloads
               ELSE IF docOnline
               THEN /\ Len(downloads) < MaxDownloads
                    /\ documents' = SetDocState(documents, doc.id, "downloading")
                    /\ downloads' = Append(downloads, [ version |-> 2, id |-> doc.id, storagePath |-> doc.storagePath ])
               ELSE /\ doc.localState # "pending_download"
                    /\ documents' = SetDocState(documents, doc.id, "pending_download")
                    /\ UNCHANGED downloads
            /\ uploadTimer' = docOnline
            /\ UNCHANGED << docFiles, bucket, docOnline, uploads, sweep, dayPassed >>
            /\ UNCHANGED notDocVars

\* storage.download(doc.storagePath) returns the blob: it is put in the files
\* store and the document is set to 'synced'.
DownloadOk ==
    \E i \in 1..Len(downloads) :
        LET call == downloads[i]
        IN  /\ call.storagePath \in bucket
            /\ docFiles' = docFiles \cup { call.id }
            /\ documents' = SetDocState(documents, call.id, "synced")
            /\ downloads' = RemoveAt(downloads, i)
            /\ uploadTimer' = docOnline
            /\ response' = [ op |-> "download", id |-> call.id, result |-> "ok" ]
            /\ UNCHANGED << bucket, docOnline, uploads, sweep, dayPassed >>
            /\ UNCHANGED notDocVars

\* The download returns an error: "Object not found" for a path not in the
\* bucket, a network error, or an error object with no keys.
DownloadFails ==
    \E i \in 1..Len(downloads) : \E result \in DownloadErrors :
        LET call == downloads[i]
        IN  /\ (result = "not found") => (call.storagePath \notin bucket)
            /\ documents' = SetDocState(documents, call.id,
                                IF call.version = 1 THEN DownloadFailureState1(result)
                                ELSE DownloadFailureState2(result, docOnline))
            /\ downloads' = RemoveAt(downloads, i)
            /\ uploadTimer' = docOnline
            /\ response' = [ op |-> "download", id |-> call.id, result |-> result ]
            /\ UNCHANGED << docFiles, bucket, docOnline, uploads, sweep, dayPassed >>
            /\ UNCHANGED notDocVars

\* cleanupCloudStorage starts (the hourly timer, or the device coming online):
\* it reads the metadata store and keeps the old documents in 'synced'.
CleanupStart ==
    /\ docOnline
    /\ sweep.pc = "idle"
    /\ sweep' = LET expired == expiredDocs(documents, dayPassed)
                IN  IF expired = <<>> THEN sweep
                    ELSE [ pc |-> "run", expiredDocs |-> expired ]
    /\ response' = NoResponse
    /\ UNCHANGED << documents, docFiles, bucket, docOnline, uploadTimer, uploads,
                    downloads, dayPassed >>
    /\ UNCHANGED notDocVars

\* storage.remove([doc.storagePath]) for the next expired document: removed, or
\* 404, and the document is set to 'archived'; or another error, and it is
\* left as it is.
CleanupRemove ==
    /\ sweep.pc = "run"
    /\ \E result \in { "ok", "404", "error" } :
          LET doc == Head(sweep.expiredDocs)
          IN  /\ (result = "404") => doc.storagePath \notin bucket
              /\ (result = "ok") => docOnline
              /\ bucket' = IF result = "ok" THEN bucket \ { doc.storagePath } ELSE bucket
              /\ documents' = IF result = "error" THEN documents
                              ELSE ReplaceDoc(documents, [ doc EXCEPT !.localState = "archived" ])
              /\ uploadTimer' = IF result = "error" THEN uploadTimer ELSE docOnline
              /\ response' = [ op |-> "remove", id |-> doc.id, result |-> result ]
    /\ sweep' = IF Len(sweep.expiredDocs) = 1 THEN [ pc |-> "idle", expiredDocs |-> <<>> ]
                ELSE [ sweep EXCEPT !.expiredDocs = Tail(@) ]
    /\ UNCHANGED << docFiles, docOnline, uploads, downloads, dayPassed >>
    /\ UNCHANGED notDocVars

NextDocs ==
    \/ AddDocuments
    \/ ConnectivityChanges
    \/ DayPasses
    \/ UploadNext
    \/ UploadOk
    \/ UploadFails
    \/ AutoDownload
    \/ GetDocumentFile1
    \/ GetDocumentFile2
    \/ DownloadOk
    \/ DownloadFails
    \/ CleanupStart
    \/ CleanupRemove

SpecDocs == InitDocs /\ [][NextDocs]_vars

\* The timers of the upload effect and of the periodic cleanup fire, and a
\* request to the bucket gets its response.
FairDocs ==
    /\ WF_vars(UploadNext)
    /\ WF_vars(UploadOk \/ UploadFails)
    /\ WF_vars(CleanupStart)
    /\ WF_vars(CleanupRemove)

\* The device's document with its blob stored and the other device's document
\* with its blob in the bucket.
InitDocsLive ==
    /\ InitDocs
    /\ documents[1].storagePath # ""
    /\ docFiles = { OwnDocId }
    /\ bucket = { StoragePathOf(RemoteDocId) }

SpecDocsLive == InitDocsLive /\ [][NextDocs]_vars /\ FairDocs

(***************************************************************************)
(* SpecSync: the orchestrator wired to the host hook and the remote store  *)
(***************************************************************************)

\* The messages setStatus is given.
MsgChecking == "checking the cloud"
MsgFetching == "fetching data and changes"
MsgDeleting == "sending deletions"
MsgUpserting == "sending new changes"
MsgOffline == "must be online to sync"
MsgUninitialized == "database is not initialised"
MsgConnection == "connection failed"
MsgFetchFailed == "fetch failed"
MsgDeleteFailed == "delete failed"
MsgUpsertFailed == "upsert error"
MsgLocalUpdateFailed == "local update after sync failed"

Named(r, name) == [ r EXCEPT !.name = name ]
Owned(r) == [ r EXCEPT !.user_id = UserId ]

\* The device's tree: client c1 and its case k1 edited locally,
\* its case k2 edited at 8000 after another device deleted it at 3000; the
\* admin task t1 and the document d1 (blob p1) were deleted locally and wait in
\* the pending lists.
InitData ==
    [ NoData EXCEPT
        !.clients = << With(Owned(Named(Rec("c1", 5000, "L"), "A")), "cases",
                            << With(Owned(Rec("k1", 5000, "L")), "stages", <<>>),
                               With(Owned(Rec("k2", 8000, "L")), "stages", <<>>) >>) >>,
        !.assistants = << DefaultAssistant >> ]

InitDeletedIds ==
    [ getInitialDeletedIds EXCEPT
        !.adminTasks = << "t1" >>, !.documents = << "d1" >>, !.documentPaths = << "p1" >> ]

InitRemote ==
    [ EmptyFlat EXCEPT
        !.clients = << Owned(Named(Rec("c1", 1000, "R"), "A")) >>,
        !.cases = << [ Owned(Rec("k1", 1000, "R")) EXCEPT !.client_id = "c1" ] >>,
        !.admin_tasks = << Owned(Rec("t1", 1000, "R")) >>,
        !.case_documents = << [ Owned(Named(Rec("d1", 1000, "R"), "doc")) EXCEPT !.case_id = "k1" ] >>,
        !.assistants = << Owned(NameRec(DefaultAssistant, "R")) >> ]

InitHostOf(tree, remote, tombstones, meta) ==
    /\ MergeIdle
    /\ UpsertIdle
    /\ MapIdle
    /\ DelIdle
    /\ SchemaIdle
    /\ DocsIdle
    /\ data = tree
    /\ stored = tree
    /\ deletedIds = InitDeletedIds
    /\ isDirty = TRUE
    /\ isOnline \in BOOLEAN
    /\ isAuthLoading \in BOOLEAN
    /\ syncStatus = IF isOnline THEN "loading" ELSE "synced"
    /\ lastSyncError = Undef
    /\ localDocsMetadata = meta
    /\ now = 9000
    /\ supabaseClient \in { "configured", "none" }
    /\ remoteSchema \in IF supabaseClient = "none" THEN { "provisioned" }
                        ELSE { "provisioned", "missing" }
    /\ remoteTables = remote
    /\ syncDeletions = tombstones
    /\ storage = { "p1" }
    /\ runs = [ s \in Slots |-> IdleRun ]

InitHost == InitHostOf(InitData, InitRemote, << Tombstone("cases", "k2", 3000) >>, <<>>)

InitSync == InitHost /\ starts = 0

\* The slot a new call takes.
FreeSlot(s) ==
    /\ runs[s].pc = "idle"
    /\ \A q \in Slots : q < s => runs[q].pc # "idle"
    /\ starts < MaxStarts

\* A manualSync call is between its start and its end.
InFlight(r) == r.kind = "manual" /\ r.pc \in { "schema", "fetch", "blobs", "delete", "upsert" }

\* onSyncStatusChange
setStatus(status, error) ==
    /\ syncStatus' = status
    /\ lastSyncError' = error

\* (mutant) fetchAndRefresh with manualSync's push phase.
PushPlanOfManual(kind, toUpsert, ids) ==
    [ upserts |-> toUpsert, deletes |-> flatDeletes(ids), paths |-> ids.documentPaths ]

\* What a call pushes after its merge: manualSync its flatUpserts, its
\* flatDeletes and the blobs of deletedIds.documentPaths; fetchAndRefresh has no
\* push phase.
PushPlan(kind, toUpsert, ids) ==
    IF kind = "manual"
    THEN [ upserts |-> toUpsert, deletes |-> flatDeletes(ids), paths |-> ids.documentPaths ]
    ELSE [ upserts |-> EmptyFlat, deletes |-> EmptyFlat, paths |-> <<>> ]

\* deletedKeys of the call.
RunDeletedKeys(kind, remoteDeletions, ids) ==
    IF kind = "manual" THEN ManualDeletedKeys(remoteDeletions, ids)
    ELSE RefreshDeletedKeys(remoteDeletions)

HasRows(flat) == \E t \in TableSet : Len(flat[t]) > 0

\* Is there a request left for upsertDataToSupabase to send?
HasUpserts(r) == NextUpsert(r.plan.upserts, UserId, 1) <= Len(UpsertOrder)

\* The next await of the call after the given stage, "publish" if none is left
\* (a push with nothing to send returns without a request).
StageAfter(stage, r) ==
    IF stage = "fetch" /\ Len(r.plan.paths) > 0 THEN "blobs"
    ELSE IF stage \in { "fetch", "blobs" } /\ HasRows(r.plan.deletes) THEN "delete"
    ELSE IF HasUpserts(r) THEN "upsert"
    ELSE "publish"

\* onDataSynced(constructData(mergedFlatData)); onDeletionsSynced(...);
\* setStatus('synced'): handleDataSynced starts and is not awaited,
\* handleDeletionsSynced sets the pending lists.
Publish(s, r) ==
    /\ runs' = [ runs EXCEPT ![s] =
                   [ r EXCEPT !.pc = "commit",
                              !.published = constructData(FoldUpserted(r.mergedFlatData, r.upserted)) ] ]
    /\ deletedIds' = IF r.kind = "manual" /\ DeletionsChanged(r.successfulDeletions)
                     THEN handleDeletionsSynced(r.deletedIds, r.successfulDeletions)
                     ELSE deletedIds
    /\ setStatus("synced", Undef)

\* The call goes on to its next await, or publishes.
Continue(s, r, stage) ==
    LET next == StageAfter(stage, r)
    IN  IF next = "publish" THEN Publish(s, r)
        ELSE /\ runs' = [ runs EXCEPT ![s] = [ r EXCEPT !.pc = next, !.idx = 1 ] ]
             /\ deletedIds' = deletedIds
             /\ IF r.kind # "manual" THEN UNCHANGED << syncStatus, lastSyncError >>
                ELSE setStatus("syncing",
                               IF next = "delete" THEN MsgDeleting
                               ELSE IF next = "upsert" THEN MsgUpserting
                               ELSE MsgFetching)

\* (mutant) manualSync's catch block as silent as fetchAndRefresh's.
CaughtSilently(s, r, msg) ==
    /\ runs' = [ runs EXCEPT ![s] = IdleRun ]
    /\ UNCHANGED << syncStatus, lastSyncError >>

\* The call ends in manualSync's catch block, or fetchAndRefresh's.
Caught(s, r, msg) ==
    /\ runs' = [ runs EXCEPT ![s] = IdleRun ]
    /\ IF r.kind = "manual" THEN setStatus("error", msg)
       ELSE UNCHANGED << syncStatus, lastSyncError >>

\* manualSync up to its first await.
manualSync(s) ==
    /\ FreeSlot(s)
    /\ ~ (syncStatus = "syncing" \/ isAuthLoading)
    /\ IF ~ isOnline
       THEN /\ setStatus("error", MsgOffline)
            /\ UNCHANGED << runs, starts >>
       ELSE /\ setStatus("syncing", MsgChecking)
            /\ runs' = [ runs EXCEPT ![s] =
                           [ IdleRun EXCEPT !.pc = "schema", !.kind = "manual",
                                            !.localData = data, !.deletedIds = deletedIds ] ]
            /\ starts' = starts + 1
    /\ UNCHANGED << data, stored, deletedIds, isDirty, isOnline, isAuthLoading,
                    localDocsMetadata, now, remoteVars >>
    /\ UNCHANGED notSyncVars

\* The user asks for a sync.
ManualSyncClick == \E s \in Slots : manualSync(s)

\* The Auto Sync effect's timer fires.
AutoSync ==
    /\ isOnline /\ isDirty /\ syncStatus # "syncing"
    /\ \E s \in Slots : manualSync(s)

\* fetchAndRefresh up to its await (the background timer or a change
\* notification calls it).
FetchAndRefreshStart ==
    \E s \in Slots :
        /\ FreeSlot(s)
        /\ ~ (syncStatus = "syncing" \/ isAuthLoading \/ ~ isOnline)
        /\ runs' = [ runs EXCEPT ![s] =
                       [ IdleRun EXCEPT !.pc = "fetch", !.kind = "refresh",
                                        !.localData = data, !.deletedIds = deletedIds ] ]
        /\ starts' = starts + 1
        /\ UNCHANGED << hostVars, remoteVars >>
        /\ UNCHANGED notSyncVars

\* The auth state resolves.
AuthResolved ==
    /\ isAuthLoading
    /\ isAuthLoading' = FALSE
    /\ UNCHANGED << data, stored, deletedIds, isDirty, syncStatus, lastSyncError,
                    isOnline, localDocsMetadata, now, remoteVars, runs, starts >>
    /\ UNCHANGED notSyncVars

\* checkSupabaseSchema succeeds: the probe of every table returned no error.
SchemaOk ==
    \E s \in Slots :
        /\ runs[s].pc = "schema"
        /\ supabaseClient = "configured"
        /\ remoteSchema = "provisioned"
        /\ runs' = [ runs EXCEPT ![s].pc = "fetch" ]
        /\ setStatus("syncing", MsgFetching)
        /\ UNCHANGED << data, stored, deletedIds, isDirty, isOnline, isAuthLoading,
                        localDocsMetadata, now, remoteVars, starts >>
        /\ UNCHANGED notSyncVars

\* checkSupabaseSchema reports 'unconfigured' (no client), 'uninitialized' (a
\* table is missing) or 'unknown' (any other error).
SchemaFails ==
    \E s \in Slots :
        /\ runs[s].pc = "schema"
        /\ \E e \in IF supabaseClient = "none" THEN { "unconfigured" }
                   ELSE { "uninitialized", "unknown" } :
              IF e = "unconfigured" THEN setStatus("unconfigured", Undef)
              ELSE IF e = "uninitialized" THEN setStatus("uninitialized", MsgUninitialized)
              ELSE setStatus("error", MsgConnection)
        /\ runs' = [ runs EXCEPT ![s] = IdleRun ]
        /\ UNCHANGED << data, stored, deletedIds, isDirty, isOnline, isAuthLoading,
                        localDocsMetadata, now, remoteVars, starts >>
        /\ UNCHANGED notSyncVars

\* fetchDataFromSupabase and fetchDeletionsFromSupabase return; the tombstone
\* fetch may have failed and given [], and has when sync_deletions is the
\* missing table (the select of any other missing table makes
\* fetchDataFromSupabase throw).  The tables are merged and the call goes on to
\* its push phase or publishes.
FetchOk ==
    \E s \in Slots :
        /\ runs[s].pc = "fetch"
        /\ supabaseClient = "configured"
        /\ \E remoteDeletions \in IF remoteSchema = "missing" THEN { <<>> }
                                 ELSE { syncDeletions, <<>> } :
              LET r == runs[s]
                  m == MergeTables(r.localData, remoteTables, remoteDeletions,
                                   RunDeletedKeys(r.kind, remoteDeletions, r.deletedIds))
                  r2 == [ r EXCEPT !.remoteDeletions = remoteDeletions,
                                   !.mergedFlatData = m.merged,
                                   !.plan = PushPlan(r.kind, m.toUpsert, r.deletedIds) ]
              IN  Continue(s, r2, "fetch")
        /\ UNCHANGED << data, stored, isDirty, isOnline, isAuthLoading,
                        localDocsMetadata, now, remoteVars, starts >>
        /\ UNCHANGED notSyncVars

\* fetchDataFromSupabase throws: no client, or a table's select failed.
FetchFails ==
    \E s \in Slots :
        /\ runs[s].pc = "fetch"
        /\ Caught(s, runs[s], MsgFetchFailed)
        /\ UNCHANGED << data, stored, deletedIds, isDirty, isOnline, isAuthLoading,
                        localDocsMetadata, now, remoteVars, starts >>
        /\ UNCHANGED notSyncVars

\* storage.from('documents').remove(deletedIds.documentPaths) returns, with or
\* without an error.
RemoveBlobs ==
    \E s \in Slots :
        /\ runs[s].pc = "blobs"
        /\ \E ok \in BOOLEAN :
              LET r == runs[s]
                  r2 == IF ok THEN [ r EXCEPT !.successfulDeletions.documentPaths = r.plan.paths ]
                        ELSE r
              IN  /\ storage' = IF ok THEN storage \ Range(r.plan.paths) ELSE storage
                  /\ Continue(s, r2, "blobs")
        /\ UNCHANGED << data, stored, isDirty, isOnline, isAuthLoading,
                        localDocsMetadata, now, supabaseClient, remoteSchema, remoteTables,
                        syncDeletions, starts >>
        /\ UNCHANGED notSyncVars

\* deleteDataFromSupabase: the tombstones of the next table are logged (a failed
\* insert is swallowed) and its rows deleted; after the last table the call
\* returns and manualSync takes deletedIds as successfulDeletions.
DeleteTableOk ==
    \E s \in Slots :
        /\ runs[s].pc = "delete"
        /\ \E logged \in BOOLEAN :
              LET r == runs[s]
                  i == NextDelete(r.plan.deletes, r.idx)
                  table == deletionOrder[i]
                  ids == r.plan.deletes[table]
                  last == NextDelete(r.plan.deletes, i + 1) > Len(deletionOrder)
              IN  /\ i <= Len(deletionOrder)
                  /\ syncDeletions' = IF logged THEN syncDeletions \o LogEntries(table, ids, now)
                                      ELSE syncDeletions
                  /\ remoteTables' = [ remoteTables EXCEPT ![table] = DeleteRows(@, table, ids) ]
                  /\ IF last
                     THEN Continue(s, [ r EXCEPT !.successfulDeletions =
                                            [ k \in DeletedIdKeys |-> r.deletedIds[k] ] ], "delete")
                     ELSE /\ runs' = [ runs EXCEPT ![s].idx = i + 1 ]
                          /\ UNCHANGED << deletedIds, syncStatus, lastSyncError >>
        /\ UNCHANGED << data, stored, isDirty, isOnline, isAuthLoading,
                        localDocsMetadata, now, supabaseClient, remoteSchema, storage, starts >>
        /\ UNCHANGED notSyncVars

\* The delete of the next table returns an error: deleteDataFromSupabase throws
\* an error with the table on it, and manualSync's catch block reports its
\* message.
DeleteTableFails ==
    \E s \in Slots :
        /\ runs[s].pc = "delete"
        /\ \E logged \in BOOLEAN :
              LET r == runs[s]
                  i == NextDelete(r.plan.deletes, r.idx)
                  table == deletionOrder[i]
              IN  /\ i <= Len(deletionOrder)
                  /\ syncDeletions' = IF logged
                                      THEN syncDeletions \o LogEntries(table, r.plan.deletes[table], now)
                                      ELSE syncDeletions
                  /\ Caught(s, r, MsgDeleteFailed)
        /\ UNCHANGED << data, stored, deletedIds, isDirty, isOnline, isAuthLoading,
                        localDocsMetadata, now, supabaseClient, remoteSchema, remoteTables, storage, starts >>
        /\ UNCHANGED notSyncVars

\* upsertDataToSupabase: the batch of the next table is upserted and its rows
\* returned; after the last batch the call returns, manualSync folds the rows
\* into the merged tables and publishes.
UpsertRunOk ==
    \E s \in Slots :
        /\ runs[s].pc = "upsert"
        /\ LET r == runs[s]
               i == NextUpsert(r.plan.upserts, UserId, r.idx)
               table == UpsertOrder[i]
               batch == UpsertBatch(r.plan.upserts, table, UserId)
               r2 == [ r EXCEPT !.upserted[table] = batch, !.idx = i + 1 ]
           IN  /\ i <= Len(UpsertOrder)
               /\ remoteTables' = [ remoteTables EXCEPT ![table] = UpsertRows(@, batch) ]
               /\ IF NextUpsert(r.plan.upserts, UserId, i + 1) > Len(UpsertOrder)
                  THEN Publish(s, r2)
                  ELSE /\ runs' = [ runs EXCEPT ![s] = r2 ]
                       /\ UNCHANGED << deletedIds, syncStatus, lastSyncError >>
        /\ UNCHANGED << data, stored, isDirty, isOnline, isAuthLoading,
                        localDocsMetadata, now, supabaseClient, remoteSchema, syncDeletions,
                        storage, starts >>
        /\ UNCHANGED notSyncVars

\* The upsert of the next batch returns an error: upsertTable throws.
UpsertRunFails ==
    \E s \in Slots :
        /\ runs[s].pc = "upsert"
        /\ NextUpsert(runs[s].plan.upserts, UserId, runs[s].idx) <= Len(UpsertOrder)
        /\ Caught(s, runs[s], MsgUpsertFailed)
        /\ UNCHANGED << data, stored, deletedIds, isDirty, isOnline, isAuthLoading,
                        localDocsMetadata, now, remoteVars, starts >>
        /\ UNCHANGED notSyncVars

\* handleDataSynced completes: the tree is written to the store and to the
\* state, and the dirty flag is cleared.
DataSyncedOk ==
    \E s \in Slots :
        /\ runs[s].pc = "commit"
        /\ LET finalData == SyncedData(runs[s].published, localDocsMetadata, now)
           IN  /\ stored' = finalData
               /\ data' = finalData
        /\ isDirty' = FALSE
        /\ runs' = [ runs EXCEPT ![s] = IdleRun ]
        /\ UNCHANGED << deletedIds, syncStatus, lastSyncError, isOnline, isAuthLoading,
                        localDocsMetadata, now, remoteVars, starts >>
        /\ UNCHANGED notSyncVars

\* handleDataSynced's store access throws: its catch block reports the error.
DataSyncedFails ==
    \E s \in Slots :
        /\ runs[s].pc = "commit"
        /\ setStatus("error", MsgLocalUpdateFailed)
        /\ runs' = [ runs EXCEPT ![s] = IdleRun ]
        /\ UNCHANGED << data, stored, deletedIds, isDirty, isOnline, isAuthLoading,
                        localDocsMetadata, now, remoteVars, starts >>
        /\ UNCHANGED notSyncVars

NextSync ==
    \/ ManualSyncClick
    \/ AutoSync
    \/ FetchAndRefreshStart
    \/ AuthResolved
    \/ SchemaOk
    \/ SchemaFails
    \/ FetchOk
    \/ FetchFails
    \/ RemoveBlobs
    \/ DeleteTableOk
    \/ DeleteTableFails
    \/ UpsertRunOk
    \/ UpsertRunFails
    \/ DataSyncedOk
    \/ DataSyncedFails

SpecSync == InitSync /\ [][NextSync]_vars

\* Each remote call a run awaits returns, with a result or with an error.
FairSync ==
    /\ WF_vars(SchemaFails \/ SchemaOk)
    /\ WF_vars(FetchFails \/ FetchOk)
    /\ WF_vars(RemoveBlobs)
    /\ WF_vars(DeleteTableFails \/ DeleteTableOk)
    /\ WF_vars(UpsertRunFails \/ UpsertRunOk)

\* The device online, one call short of the bound on the calls.
InitSyncLive ==
    /\ InitHost
    /\ isOnline
    /\ starts = 1

SpecSyncLive == InitSyncLive /\ [][NextSync]_vars /\ FairSync

(***************************************************************************)
(* SpecScenario: one call over Client A with its cases X and Y             *)
(***************************************************************************)

\* The time of day in milliseconds.
AtClock(h, m, ms) == (h * 60 + m) * 60000 + ms

\* Client A (id 1) with Case X (id 10) and Case Y (id 11) on the device.
ScenarioData(tA, tX, tY, tasks) ==
    [ NoData EXCEPT
        !.adminTasks = tasks,
        !.clients = << With(Owned(Named(Rec("1", tA, "L"), "A")), "cases",
                            << With(Owned(Rec("10", tX, "L")), "stages", <<>>),
                               With(Owned(Rec("11", tY, "L")), "stages", <<>>) >>) >>,
        !.assistants = << DefaultAssistant >> ]

\* Client A as the remote store has it, with or without Case X and Case Y.
ScenarioRemote(tA, xs, ys) ==
    [ InitRemote EXCEPT
        !.clients = << Owned(Named(Rec("1", tA, "R"), "A")) >>,
        !.cases = [ i \in 1..Len(xs \o ys) |->
                      [ Owned((xs \o ys)[i]) EXCEPT !.client_id = "1" ] ] ]

\* The tombstone another device left for Case Y.
TombstoneY(at) == Tombstone("cases", "11", at)

\* The scenario and its neighbours: Client A edited at 09:00, at 09:00:01 or at
\* 10:00 against the remote 09:00; Case X with or without a date, on the remote
\* store or not; Case Y last edited at 09:00, just inside or just outside the
\* tombstone's two seconds; with or without a new admin task whose id is the
\* id of Client A (the tables have a primary key each, and ids are compared
\* as strings after String(id)); one call left to make.
InitScenario ==
    /\ \E tA \in { AtClock(9, 0, 0), AtClock(9, 0, 1000), AtClock(10, 0, 0) },
          tX \in { NoDate, AtClock(10, 0, 0) },
          xs \in { <<>>, << Rec("10", AtClock(9, 0, 0), "R") >> },
          tY \in { AtClock(9, 0, 0), AtClock(9, 30, 1999), AtClock(9, 30, 2000) },
          ys \in { <<>>, << Rec("11", AtClock(9, 0, 0), "R") >> },
          tasks \in { <<>>, << Owned(Rec("1", AtClock(10, 0, 0), "L")) >> } :
          InitHostOf(ScenarioData(tA, tX, tY, tasks),
                     ScenarioRemote(AtClock(9, 0, 0), xs, ys),
                     << TombstoneY(AtClock(9, 30, 0)) >>, <<>>)
    /\ isOnline
    /\ supabaseClient = "configured"
    /\ remoteSchema = "provisioned"
    /\ starts = MaxStarts - 1

SpecScenario == InitScenario /\ [][NextSync]_vars

(***************************************************************************)
(* SpecEdits: the user goes on working while the calls are in flight       *)
(***************************************************************************)

\* The document of case k2 that addDocuments (or a failed transfer) left in the
\* metadata store and in the tree.
EditsDoc(localState) ==
    [ Named(Rec("d2", 1000, "L"), "doc") EXCEPT !.caseId = "k2", !.localState = localState ]

\* The device's tree: client c1 and its case k1 edited locally, its case k2 not
\* touched since another device deleted it at 3000, the document d2 of k2, the
\* appointment a1 as the remote store has it, and the new invoice i1 of c1
\* with one item.
EditsData(localState) ==
    [ NoData EXCEPT
        !.clients = << With(Owned(Named(Rec("c1", 5000, "L"), "A")), "cases",
                            << With(Owned(Rec("k1", 5000, "L")), "stages", <<>>),
                               With(Owned(Rec("k2", 1000, "L")), "stages", <<>>) >>) >>,
        !.appointments = << Owned(Rec("a1", 1000, "R")) >>,
        !.invoices = << With([ Owned(Rec("i1", 5000, "L")) EXCEPT !.clientId = "c1" ],
                             "items", << Rec("it1", 5000, "L") >>) >>,
        !.documents = << EditsDoc(localState) >>,
        !.assistants = << DefaultAssistant >> ]

EditsRemote == [ InitRemote EXCEPT !.appointments = << Owned(Rec("a1", 1000, "R")) >> ]

\* The user is online, the remote store is provisioned, and one call is left
\* to make.
InitEdits ==
    /\ \E localState \in { "pending_upload", "error", "synced" } :
          InitHostOf(EditsData(localState), EditsRemote,
                     << Tombstone("cases", "k2", 3000) >>, << EditsDoc(localState) >>)
    /\ isOnline
    /\ supabaseClient = "configured"
    /\ remoteSchema = "provisioned"
    /\ starts = MaxStarts - 1

\* The admin task the user adds.
NewTask == Owned(Rec("t2", 9000, "L"))

\* setAdminTasks(prev => [...prev, task]) through updateData: the new tree is
\* set, written to the store, and the dirty flag raised.
setAdminTasks ==
    /\ NewTask.id \notin IdsOf(data.adminTasks)
    /\ data' = [ data EXCEPT !.adminTasks = Append(@, NewTask) ]
    /\ stored' = data'
    /\ isDirty' = TRUE
    /\ UNCHANGED << deletedIds, syncStatus, lastSyncError, isOnline, isAuthLoading,
                    localDocsMetadata, now, remoteVars, runs, starts >>
    /\ UNCHANGED notSyncVars

\* deleteAppointment(id): updateData drops the appointment from the tree and
\* createDeleteFunction('appointments')(id) queues the id.
deleteAppointment ==
    \E id \in IdsOf(data.appointments) :
        /\ data' = [ data EXCEPT !.appointments = SelectSeq(@, LAMBDA a : a.id # id) ]
        /\ stored' = data'
        /\ deletedIds' = [ deletedIds EXCEPT !.appointments = Append(@, id) ]
        /\ isDirty' = TRUE
        /\ UNCHANGED << syncStatus, lastSyncError, isOnline, isAuthLoading,
                        localDocsMetadata, now, remoteVars, runs, starts >>
        /\ UNCHANGED notSyncVars

NextEdits == NextSync \/ setAdminTasks \/ deleteAppointment

SpecEdits == InitEdits /\ [][NextEdits]_vars

(***************************************************************************)
(* Claims about the reconciler (SpecMerge)                                 *)
(***************************************************************************)

\* The number of records of table s whose key is k.
KeyCount(s, k) == Cardinality({ i \in 1..Len(s) : getPk(s[i]) = k })

\* The deleted_at of the tombstone of key k of the table, or NoDate.
MTombstoneAt(k) == DeletionMapGet(mDeletions, DelKey(mTable, k))

\* C2: mergeItems returns, in merged and in toUpsert, no record whose
\* "table:key" is in the deleted-key set (remote tombstones and locally pending
\* ids), whether the record came from local or from remote; and a local record
\* whose updated_at is less than deleted_at + 2 s of its tombstone is absent
\* from the merged table.
C2_NoDeletedKeyMerged ==
    mPc = "done" =>
        /\ \A r \in Range(mOut.merged) \cup Range(mOut.toUpsert) :
               DelKey(mTable, getPk(r)) \notin MDeletedKeys
        /\ \A i \in 1..Len(mLocal) :
               ( /\ MTombstoneAt(getPk(mLocal[i])) # NoDate
                 /\ TimeOf(mLocal[i].updated_at) < MTombstoneAt(getPk(mLocal[i])) + 2000 )
               => mLocal[i] \notin Range(mOut.merged)

\* C2 witness: a tombstoned key held, stale, by local and also by remote, next
\* to a key that is merged.
C2_Witness ==
    /\ mPc = "done"
    /\ \E i \in 1..Len(mLocal), j \in 1..Len(mRemote) :
          /\ getPk(mLocal[i]) = getPk(mRemote[j])
          /\ MTombstoneAt(getPk(mLocal[i])) # NoDate
          /\ TimeOf(mLocal[i].updated_at) < MTombstoneAt(getPk(mLocal[i])) + 2000
    /\ Len(mOut.merged) > 0

\* C3: for a local and a remote record with the same key, not in the deleted
\* set (each the only record of its table with that key): if local.updated_at >
\* remote.updated_at + 1000 ms the local record is the one in merged and it is
\* in toUpsert; otherwise the remote record is the one in merged and no record
\* with that key is in toUpsert.  A missing updated_at counts as 0.
C3_TieBreak ==
    mPc = "done" =>
        \A i \in 1..Len(mFiltered), j \in 1..Len(mRemote) :
            LET l == mFiltered[i]
                r == mRemote[j]
                k == getPk(l)
                lt == IF l.updated_at = NoDate THEN 0 ELSE l.updated_at
                rt == IF r.updated_at = NoDate THEN 0 ELSE r.updated_at
            IN  ( /\ k # "" /\ getPk(r) = k
                  /\ DelKey(mTable, k) \notin MDeletedKeys
                  /\ KeyCount(mFiltered, k) = 1 /\ KeyCount(mRemote, k) = 1 )
                => IF lt > rt + 1000
                   THEN /\ l \in Range(mOut.merged)
                        /\ r \notin Range(mOut.merged)
                        /\ l \in Range(mOut.toUpsert)
                   ELSE /\ r \in Range(mOut.merged)
                        /\ l \notin Range(mOut.merged)
                        /\ \A u \in Range(mOut.toUpsert) : getPk(u) # k

\* C3 witness: one key where local leads by more than the buffer and one where
\* it leads by exactly the buffer, both merged.
C3_Witness ==
    /\ mPc = "done"
    /\ \E i1, i2 \in 1..Len(mFiltered), j1, j2 \in 1..Len(mRemote) :
          /\ getPk(mFiltered[i1]) = getPk(mRemote[j1])
          /\ getPk(mFiltered[i2]) = getPk(mRemote[j2])
          /\ TimeOf(mFiltered[i1].updated_at) > TimeOf(mRemote[j1].updated_at) + 1000
          /\ TimeOf(mFiltered[i2].updated_at) = TimeOf(mRemote[j2].updated_at) + 1000
          /\ mFiltered[i1] \in Range(mOut.toUpsert)
          /\ mRemote[j2] \in Range(mOut.merged)

\* C4: a local record with a non-empty key that is not in the deleted set and
\* has no remote record with the same key (the only local record with that
\* key) is in merged and in toUpsert.
C4_NewLocalKept ==
    mPc = "done" =>
        \A i \in 1..Len(mFiltered) :
            LET l == mFiltered[i]
                k == getPk(l)
            IN  ( /\ k # ""
                  /\ DelKey(mTable, k) \notin MDeletedKeys
                  /\ \A j \in 1..Len(mRemote) : getPk(mRemote[j]) # k
                  /\ KeyCount(mFiltered, k) = 1 )
                => /\ l \in Range(mOut.merged)
                   /\ l \in Range(mOut.toUpsert)

\* C4 witness: a new local record pushed while the remote table holds another key.
C4_Witness ==
    /\ mPc = "done"
    /\ Len(mRemote) > 0
    /\ \E i \in 1..Len(mFiltered) :
          /\ getPk(mFiltered[i]) # ""
          /\ \A j \in 1..Len(mRemote) : getPk(mRemote[j]) # getPk(mFiltered[i])
          /\ mFiltered[i] \in Range(mOut.toUpsert)
          /\ mFiltered[i] \in Range(mOut.merged)

(***************************************************************************)
(* Claims about upsertDataToSupabase (SpecUpsert)                          *)
(***************************************************************************)

ChildTables == { "cases", "stages", "sessions", "invoices", "invoice_items", "case_documents" }

\* The parent table of a child table, and the parent id a child record holds.
ParentTableOf(t) ==
    CASE t = "cases" -> "clients"
      [] t = "stages" -> "cases"
      [] t = "sessions" -> "stages"
      [] t = "invoices" -> "clients"
      [] t = "invoice_items" -> "invoices"
      [] t = "case_documents" -> "cases"

ParentIdOf(t, r) ==
    CASE t = "cases" -> r.client_id
      [] t = "stages" -> r.case_id
      [] t = "sessions" -> r.stage_id
      [] t = "invoices" -> r.clientId
      [] t = "invoice_items" -> r.invoice_id
      [] t = "case_documents" -> r.caseId

\* Is the record of table t an orphan of the write set?
IsOrphan(writeSet, t, r) ==
    /\ t \in ChildTables
    /\ \A i \in 1..Len(writeSet[ParentTableOf(t)]) :
           writeSet[ParentTableOf(t)][i].id # ParentIdOf(t, r)

\* Was a record with the id of r sent in a request for table t?
WasSent(sent, t, r) ==
    \E i \in 1..Len(sent) :
        /\ sent[i].table = t
        /\ \E j \in 1..Len(sent[i].records) : sent[i].records[j].id = r.id

\* C9: upsertDataToSupabase sends a child record only if its parent id is the id
\* of a parent record in the same write set; an orphan is dropped from its batch
\* with no error, and a call that returns has sent every record that is not an
\* orphan, those of the tables after an orphan's table included.
C9_OrphanFilter ==
    /\ \A i \in 1..Len(uSent) : \A j \in 1..Len(uSent[i].records) :
           ~ IsOrphan(uData, uSent[i].table, uSent[i].records[j])
    /\ uPc = "returned" =>
           \A t \in TableSet : \A i \in 1..Len(uData[t]) :
               WasSent(uSent, t, uData[t][i]) <=> ~ IsOrphan(uData, t, uData[t][i])

\* C9 witness: a call returned after dropping an orphan invoice and an orphan
\* case and sending a later table.
C9_Witness ==
    /\ uPc = "returned"
    /\ \E i \in 1..Len(uData.cases) : IsOrphan(uData, "cases", uData.cases[i])
    /\ \E i \in 1..Len(uData.invoices) : IsOrphan(uData, "invoices", uData.invoices[i])
    /\ \E i \in 1..Len(uSent) : uSent[i].table = "case_documents"
    /\ \E i \in 1..Len(uSent) : uSent[i].table = "admin_tasks"

(***************************************************************************)
(* Claims about the orchestrator (SpecSync)                                *)
(***************************************************************************)

\* The primary keys of the records of a flat table.
KeysOf(rows) == { getPk(rows[i]) : i \in 1..Len(rows) }

\* A manualSync call that has published its merged result.
HasPublished(r) == r.kind = "manual" /\ r.pc = "commit"

\* C1: in a manualSync run, a local record whose key has a remote tombstone
\* with deleted_at = d and whose updated_at >= d + 2000 is in the published
\* merged result and among the records marked for push.
C1_Resurrection ==
    \A s \in Slots : HasPublished(runs[s]) =>
        \A t \in TableSet :
            LET rows == flattenData(runs[s].localData)[t]
            IN  \A i \in 1..Len(rows) :
                    LET d == DeletionMapGet(runs[s].remoteDeletions, DelKey(t, getPk(rows[i])))
                    IN  (d # NoDate /\ TimeOf(rows[i].updated_at) >= d + TombstoneBuffer) =>
                            /\ getPk(rows[i]) \in KeysOf(flattenData(runs[s].published)[t])
                            /\ getPk(rows[i]) \in KeysOf(runs[s].plan.upserts[t])

\* The step in which a manualSync run ends without publishing.
C5_FailureStep ==
    \A s \in Slots :
        (InFlight(runs[s]) /\ runs'[s].pc = "idle") =>
            /\ syncStatus' # "synced"
            /\ lastSyncError' # Undef
            /\ data' = data
            /\ stored' = stored

\* C5: a manualSync run that ends without publishing (its schema probe, fetch,
\* deletion push or upsert push failed) leaves a status other than 'synced'
\* with a message, and leaves the in-memory and the persisted tree as they were.
C5_FailureLeavesSnapshot == [][C5_FailureStep]_vars

\* C6: at most one manualSync run is between its start and its end.
C6_SingleFlight == Cardinality({ s \in Slots : InFlight(runs[s]) }) <= 1

\* The step in which the remote delete of a table fails.
C7_DeleteFailureStep ==
    \A s \in Slots :
        (runs[s].pc = "delete" /\ runs'[s].pc = "idle") =>
            LET deletes == runs[s].plan.deletes
                i == NextDelete(deletes, runs[s].idx)
            IN  /\ syncStatus' = "error"
                /\ \A j \in 1..(i - 1) :
                       Range(deletes[deletionOrder[j]])
                           \cap Range(flatDeletes(deletedIds')[deletionOrder[j]]) = {}
                /\ Range(deletes[deletionOrder[i]])
                       \subseteq Range(flatDeletes(deletedIds')[deletionOrder[i]])

\* C7: when the remote delete fails on table T, the sync ends in error, the
\* pending ids of the tables deleted from before T are no longer pending and
\* the ids of T still are.
C7_DeleteFailure == [][C7_DeleteFailureStep]_vars

\* C8: the merged result manualSync publishes has no record whose id was in the
\* pending-deletion list of its table when the run started.
C8_NoPendingDeletedPublished ==
    \A s \in Slots : HasPublished(runs[s]) =>
        \A t \in TableSet :
            Range(flatDeletes(runs[s].deletedIds)[t])
                \cap KeysOf(flattenData(runs[s].published)[t]) = {}

\* A step of a fetchAndRefresh run writes nothing remote and no pending list.
C10_RefreshStep ==
    \A s \in Slots :
        ((runs[s].kind = "refresh" \/ runs'[s].kind = "refresh") /\ runs'[s] # runs[s]) =>
            /\ remoteTables' = remoteTables
            /\ syncDeletions' = syncDeletions
            /\ storage' = storage
            /\ deletedIds' = deletedIds

\* C10: a step of a fetchAndRefresh run changes neither the remote tables, the
\* remote tombstones, the remote blobs nor the pending-deletion lists.
C10_RefreshReadsOnly == [][C10_RefreshStep]_vars

\* C10 witness: a fetchAndRefresh run has published its merged tree while
\* deletions are pending, and the remote store and the pending lists are as
\* they were.
C10_Witness ==
    \E s \in Slots :
        /\ runs[s].kind = "refresh" /\ runs[s].pc = "commit"
        /\ runs[s].published.clients # <<>>
        /\ deletedIds = InitDeletedIds
        /\ remoteTables = InitRemote
        /\ storage = { "p1" }
        /\ Len(syncDeletions) = 1

\* A fetchAndRefresh call gets past its guard while a manualSync run is in flight.
C11_RefreshStartsStep ==
    /\ \E q \in Slots : InFlight(runs[q])
    /\ \E s \in Slots : runs[s].pc = "idle" /\ runs'[s].kind = "refresh"

\* C11: a fetchAndRefresh triggered while a manualSync run is in flight is a
\* no-op: no refresh run starts (so nothing is fetched or published and the
\* status is not changed by it).
C11_RefreshNoOpDuringSync == [][~ C11_RefreshStartsStep]_vars

(***************************************************************************)
(* Claims about the mapper (SpecMapper)                                    *)
(***************************************************************************)

\* tree with every nested node carrying its parent's id in the foreign-key
\* field of its level.
Annotated(tree) ==
    [ tree EXCEPT
        !.clients = [ i \in 1..Len(tree.clients) |->
            LET c == tree.clients[i] IN
            [ c EXCEPT !.cases = [ j \in 1..Len(c.cases) |->
                LET k == c.cases[j] IN
                [ k EXCEPT !.client_id = c.id,
                           !.stages = [ m \in 1..Len(k.stages) |->
                    LET st == k.stages[m] IN
                    [ st EXCEPT !.case_id = k.id,
                                !.sessions = [ n \in 1..Len(st.sessions) |->
                                    [ st.sessions[n] EXCEPT !.stage_id = st.id ] ] ] ] ] ] ] ],
        !.invoices = [ i \in 1..Len(tree.invoices) |->
            LET v == tree.invoices[i] IN
            [ v EXCEPT !.items = [ j \in 1..Len(v.items) |->
                [ v.items[j] EXCEPT !.invoice_id = v.id ] ] ] ] ]

\* C12 as stated: constructData(flattenData(tree)) is the tree itself, field
\* for field, for every well-formed tree.
C12_RoundTripExact == tPc = "done" => tBack = tTree

\* C12: constructData(flattenData(tree)) has the clients, cases, stages,
\* sessions, invoices and invoice items of the tree with the same nesting,
\* order and field values, except that every nested node carries its
\* parent's id in client_id / case_id / stage_id / invoice_id; a tree whose
\* nodes already carry them comes back unchanged.
C12_RoundTrip ==
    tPc = "done" =>
        /\ tBack = Annotated(tTree)
        /\ (tTree = Annotated(tTree) => tBack = tTree)

\* A round trip of a tree with two cases under one client, a session under a
\* stage and two items under an invoice, whose nodes lacked the foreign keys.
C12_Witness ==
    /\ tPc = "done"
    /\ tBack # tTree
    /\ \E i \in 1..Len(tTree.clients) :
         /\ Len(tTree.clients[i].cases) = 2
         /\ \E j \in 1..2 : \E m \in 1..Len(tTree.clients[i].cases[j].stages) :
                Len(tTree.clients[i].cases[j].stages[m].sessions) = 1
    /\ \E i \in 1..Len(tTree.invoices) : Len(tTree.invoices[i].items) = 2

(***************************************************************************)
(* Further claims about mergeItems (SpecMerge)                             *)
(***************************************************************************)

\* C13: for any local and remote inputs, the same key occurring more than
\* once included, mergeItems returns a merged table with at most one record
\* per key, and every record of toUpsert is one of the records of merged.
C13_ToUpsertWithinMerged ==
    mPc = "done" =>
        /\ \A i \in 1..Len(mOut.merged) : KeyCount(mOut.merged, getPk(mOut.merged[i])) = 1
        /\ \A i \in 1..Len(mOut.toUpsert) : mOut.toUpsert[i] \in Range(mOut.merged)

(***************************************************************************)
(* Claims about deleteDataFromSupabase (SpecDelete)                        *)
(***************************************************************************)

\* The order of the per-table deletes.
StatedDeletionOrder ==
    << "case_documents", "invoice_items", "sessions", "stages", "cases", "invoices",
       "admin_tasks", "appointments", "accounting_entries", "assistants", "clients",
       "site_finances", "profiles" >>

\* The position of table t in the stated order.
StatedPos(t) == CHOOSE i \in 1..Len(StatedDeletionOrder) : StatedDeletionOrder[i] = t

\* The tables of the call with something to delete, in the stated order.
DueDeletes == SelectSeq(StatedDeletionOrder, LAMBDA t : Len(dDeletions[t]) > 0)

\* The delete requests of the call, in the order they were issued.
DeletesSent == SelectSeq(dSent, LAMBDA q : q.op = "delete")

\* C14: deleteDataFromSupabase issues the per-table deletes one after another
\* in the order case_documents, invoice_items, sessions, stages, cases,
\* invoices, admin_tasks, appointments, accounting_entries, assistants,
\* clients, site_finances, profiles, so that the delete of a child table is
\* issued before the delete of its parent table.
C14_DeletionOrder ==
    /\ Len(DeletesSent) <= Len(DueDeletes)
    /\ \A i \in 1..Len(DeletesSent) :
          /\ DeletesSent[i].table = DueDeletes[i]
          /\ DeletesSent[i].ids = dDeletions[DeletesSent[i].table]
    /\ \A i, j \in 1..Len(DeletesSent) :
          (DeletesSent[i].table \in ChildTables /\ DeletesSent[j].table = ParentTableOf(DeletesSent[i].table))
              => i < j
    /\ dPc = "returned" => Len(DeletesSent) = Len(DueDeletes)

\* A call that has deleted from stages, cases and clients, and returned.
C14_Witness ==
    /\ dPc = "returned"
    /\ Len(DeletesSent) = 3
    /\ { DeletesSent[i].table : i \in 1..3 } = { "stages", "cases", "clients" }

(***************************************************************************)
(* Claims about the push phase of manualSync (SpecSync)                    *)
(***************************************************************************)

\* The order of the per-table upserts.
StatedUpsertOrder ==
    << "profiles", "assistants", "clients", "cases", "stages", "sessions",
       "invoices", "invoice_items", "case_documents", "admin_tasks",
       "appointments", "accounting_entries", "site_finances" >>

\* The tables run r has records to upsert to, in the stated order.
DueUpserts(r) ==
    SelectSeq(StatedUpsertOrder, LAMBDA t : Len(UpsertBatch(r.plan.upserts, t, UserId)) > 0)

\* How many of its due tables run r has upserted to.
UpsertedCount(r) ==
    Cardinality({ j \in 1..Len(DueUpserts(r)) : r.upserted[DueUpserts(r)[j]] # <<>> })

\* A run reaches its first upsert only from the last delete of its deletion
\* push, or with nothing to delete.
C15_EnterUpsertStep ==
    \A s \in Slots :
        (runs[s].pc # "upsert" /\ runs'[s].pc = "upsert") =>
            LET deletes == runs'[s].plan.deletes
            IN  HasRows(deletes) =>
                    /\ runs[s].pc = "delete"
                    /\ LET i == NextDelete(deletes, runs[s].idx)
                       IN  /\ i <= Len(deletionOrder)
                           /\ NextDelete(deletes, i + 1) > Len(deletionOrder)
                           /\ KeysOf(remoteTables'[deletionOrder[i]])
                                  \cap Range(deletes[deletionOrder[i]]) = {}

\* An upsert request of a run: the next due table in the stated order, applied
\* on success; on failure nothing is written and the run ends.
C15_UpsertStep ==
    \A s \in Slots :
        (runs[s].pc = "upsert" /\ runs'[s] # runs[s]) =>
            LET r == runs[s]
                due == DueUpserts(r)
                n == UpsertedCount(r)
            IN  /\ r.kind = "manual"
                /\ n < Len(due)
                /\ \A j \in 1..Len(due) : (r.upserted[due[j]] # <<>>) <=> (j <= n)
                /\ IF runs'[s].pc = "idle"
                   THEN /\ remoteTables' = remoteTables
                        /\ syncStatus' = "error"
                   ELSE LET t == due[n + 1]
                            batch == UpsertBatch(r.plan.upserts, t, UserId)
                        IN  /\ runs'[s].upserted = [ r.upserted EXCEPT ![t] = batch ]
                            /\ Range(batch) \subseteq Range(remoteTables'[t])
                            /\ \A u \in TableSet \ { t } : remoteTables'[u] = remoteTables[u]
                            /\ runs'[s].pc = IF n + 1 = Len(due) THEN "commit" ELSE "upsert"

\* C15: within a manualSync run every upsert is issued after the deletion push
\* has completed, and the per-table upserts are issued one after another in
\* the order profiles, assistants, clients, cases, stages, sessions, invoices,
\* invoice_items, case_documents, admin_tasks, appointments,
\* accounting_entries, site_finances; a failed upsert of one table leaves the
\* earlier tables' upserts applied and issues none of the later ones.
C15_PushOrder == [][C15_EnterUpsertStep /\ C15_UpsertStep]_vars

\* A sync whose upsert of the cases failed after its deletion push and its
\* upsert of the clients: the task t1 is deleted, the client row is the
\* device's, the case row is still the server's.
C15_Witness ==
    /\ syncStatus = "error"
    /\ lastSyncError = MsgUpsertFailed
    /\ "t1" \notin KeysOf(remoteTables.admin_tasks)
    /\ \E i \in 1..Len(remoteTables.clients) :
          remoteTables.clients[i].id = "c1" /\ remoteTables.clients[i].ver = "L"
    /\ \E i \in 1..Len(remoteTables.cases) :
          remoteTables.cases[i].id = "k1" /\ remoteTables.cases[i].ver = "R"

\* The status is 'unconfigured' with no client, or 'uninitialized' with a
\* table missing, and the step changes the status.
C16_LeavesTerminalStep ==
    /\ \/ syncStatus = "unconfigured" /\ supabaseClient = "none"
       \/ syncStatus = "uninitialized" /\ remoteSchema = "missing"
    /\ supabaseClient' = supabaseClient
    /\ remoteSchema' = remoteSchema
    /\ syncStatus' # syncStatus

\* C16: once the sync status is 'unconfigured' (no usable remote client) or
\* 'uninitialized' (a table is missing), no manual trigger, auto-sync trigger
\* or fetchAndRefresh moves it to 'synced' or to any other status while the
\* client stays unconfigured / the schema stays unprovisioned.
C16_TerminalStates == [][~ C16_LeavesTerminalStep]_vars

\* The same for 'uninitialized' alone: the status does not become 'synced'
\* while a table is missing.
C16_UninitializedToSyncedStep ==
    /\ syncStatus = "uninitialized" /\ remoteSchema = "missing"
    /\ remoteSchema' = remoteSchema
    /\ syncStatus' = "synced"

C16_UninitializedNeverSynced == [][~ C16_UninitializedToSyncedStep]_vars

(***************************************************************************)
(* Claims about checkSupabaseSchema (SpecSchema)                           *)
(***************************************************************************)

\* The probe of some table returned a missing-table error.
SomeTableMissing == \E t \in Range(SchemaTables) : IsMissingTableError(sProbes[t])

\* The probe of some table returned an error.
SomeProbeFailed == \E t \in Range(SchemaTables) : sProbes[t] # NoError

\* C17: checkSupabaseSchema reports 'unconfigured' when there is no client;
\* 'uninitialized' whenever the probe of any table returns a missing-table
\* error, whatever the other probes return; a non-schema failure (status
\* 'error') when a probe fails otherwise and no table is missing; and passes
\* only when every probe succeeds.
C17_SchemaOutcome ==
    sPc = "reported" =>
        /\ sClient = "none" => sStatus = "unconfigured"
        /\ (sClient = "configured" /\ SomeTableMissing) => sStatus = "uninitialized"
        /\ (sClient = "configured" /\ SomeProbeFailed /\ ~ SomeTableMissing) => sStatus = "error"
        /\ sResult.success => (sClient = "configured" /\ ~ SomeProbeFailed)

\* The same with the first failing probe deciding: 'uninitialized' when the
\* first table (in the order of tableChecks) whose probe failed is missing,
\* 'error' when it failed otherwise.
C17_FirstErrorDecides ==
    sPc = "reported" =>
        /\ sClient = "none" => sStatus = "unconfigured"
        /\ sClient = "configured" =>
              LET failed == SelectSeq(SchemaTables, LAMBDA t : sProbes[t] # NoError)
              IN  sStatus = IF failed = <<>> THEN "syncing"
                            ELSE IF IsMissingTableError(sProbes[failed[1]]) THEN "uninitialized"
                            ELSE "error"

(***************************************************************************)
(* Claims about the documents (SpecDocs, SpecDocsLive)                     *)
(***************************************************************************)

DocIds == { NewDocId, OwnDocId, RemoteDocId }

\* The localState of the document with the id, "absent" if there is none.
StateOf(id) ==
    IF HasDoc(documents, id)
    THEN documents[CHOOSE i \in 1..Len(documents) : documents[i].id = id].localState
    ELSE "absent"

\* The storagePath of the document with the id, "" if there is none.
PathOf(id) ==
    IF HasDoc(documents, id)
    THEN documents[CHOOSE i \in 1..Len(documents) : documents[i].id = id].storagePath
    ELSE ""

\* A document that joins the list has its blob in the files store and is in
\* 'pending_upload'.
C18_AddedStep ==
    \A d \in DocIds :
        (~ HasDoc(documents, d) /\ HasDoc(documents', d)) =>
            /\ d \in docFiles'
            /\ \E i \in 1..Len(documents') :
                  documents'[i] = Doc(d, "pending_upload", StoragePathOf(d))

\* The added document in 'pending_upload', the device online: it reaches
\* 'synced', unless the device goes offline or an upload of it fails.
C18_Uploaded ==
    (StateOf(NewDocId) = "pending_upload" /\ docOnline)
        ~> \/ StateOf(NewDocId) = "synced"
           \/ ~ docOnline
           \/ response = [ op |-> "upload", id |-> NewDocId, result |-> "error" ]

\* The added document in 'synced', its addedAt more than 24 hours old, the
\* device online: it becomes 'archived' with its blob out of the bucket,
\* unless the device goes offline or a request for it fails.
C18_Archived ==
    (StateOf(NewDocId) = "synced" /\ dayPassed /\ docOnline)
        ~> \/ StateOf(NewDocId) = "archived" /\ StoragePathOf(NewDocId) \notin bucket
           \/ ~ docOnline
           \/ response = [ op |-> "remove", id |-> NewDocId, result |-> "error" ]
           \/ response = [ op |-> "upload", id |-> NewDocId, result |-> "error" ]

Uploadable == SelectSeq(documents, LAMBDA d : d.localState = "pending_upload" /\ d.storagePath # "")

\* A run of uploadNext: it takes the first document in 'pending_upload' with a
\* storagePath and no other; with the blob missing from the files store it
\* sets that document to 'error', otherwise it starts its upload.
C19_PickStep ==
    UploadNext =>
        IF Uploadable = <<>>
        THEN documents' = documents /\ uploads' = uploads
        ELSE LET doc == Head(Uploadable)
             IN  IF doc.id \notin docFiles
                 THEN /\ documents' = SetDocState(documents, doc.id, "error")
                      /\ uploads' = uploads
                 ELSE /\ documents' = documents
                      /\ uploads' = Append(uploads, doc)

\* No step takes a document from 'error' back to 'pending_upload'.
C19_NoRevivalStep ==
    \A d \in DocIds : StateOf(d) = "error" => StateOf(d)' # "pending_upload"

\* After the response to an upload the document is 'synced' if it succeeded
\* and 'error' if it failed.
C19_Outcome ==
    response.op = "upload" =>
        StateOf(response.id) = IF response.result = "ok" THEN "synced" ELSE "error"

\* C19: the upload loop picks only a document in 'pending_upload' with a
\* non-empty storagePath; it sets that document to 'error' if its blob is
\* missing from the local store, to 'synced' if the upload succeeds and to
\* 'error' if the upload fails; and a document in 'error' is never picked
\* again by the upload loop.
C19_UploadLoop == [][C19_PickStep /\ C19_NoRevivalStep]_vars /\ [] C19_Outcome

\* The device's document is in 'error' after its failed upload and the loop
\* has gone on to the added document.
C19_Witness ==
    /\ StateOf(OwnDocId) = "error"
    /\ OwnDocId \in docFiles
    /\ PathOf(OwnDocId) # ""
    /\ Len(uploads) = 1
    /\ uploads[1].id = NewDocId

\* C20: when a download of a document's blob is attempted, a successful fetch
\* stores the blob in the local store and sets the document to 'synced'; a
\* not-found response from the remote blob store sets it to 'expired'; any
\* other failure sets it to 'error'.
C20_DownloadOutcome ==
    response.op = "download" =>
        IF response.result = "ok"
        THEN response.id \in docFiles /\ StateOf(response.id) = "synced"
        ELSE StateOf(response.id) = IF response.result = "not found" THEN "expired" ELSE "error"

\* The same for the not-found response alone.
C20_NotFoundExpires ==
    (response.op = "download" /\ response.result = "not found") =>
        StateOf(response.id) = "expired"

\* The same for the other failures alone.
C20_OtherFailureIsError ==
    (response.op = "download" /\ response.result \notin { "ok", "not found" }) =>
        StateOf(response.id) = "error"

\* The same for the successful download alone.
C20_SuccessIsSynced ==
    (response.op = "download" /\ response.result = "ok") =>
        response.id \in docFiles /\ StateOf(response.id) = "synced"

\* The documents in 'downloading'.
Downloading == { id \in DocIds : StateOf(id) = "downloading" }

\* C21: at most one blob download is in flight and at most one document is in
\* 'downloading' at any time, a getDocumentFile of the screen running next to
\* the auto-download effect included.
C21_SingleDownload ==
    /\ Len(downloads) <= 1
    /\ Cardinality(Downloading) <= 1

\* C22: at most one blob upload is in flight, and no document is being
\* uploaded by two overlapping uploads, the list of documents changing during
\* an upload included.
C22_SingleUpload ==
    /\ Len(uploads) <= 1
    /\ \A i, j \in 1..Len(uploads) : uploads[i].id = uploads[j].id => i = j

\* A step in which a storage.remove of the retention sweep returns.
C23_RemoveStep == sweep.pc = "run" /\ response'.op = "remove" /\ sweep' # sweep

\* The sweep's removal acts on a document that is 'synced' and old, archives it
\* unless the removal failed with another error than 404, and leaves the other
\* documents as they are.
C23_RemoveOutcomeStep ==
    C23_RemoveStep =>
        LET id == response'.id
        IN  /\ StateOf(id) = "synced" /\ dayPassed
            /\ documents'[CHOOSE i \in 1..Len(documents) : documents[i].id = id].localState
                 = IF response'.result \in { "ok", "404" } THEN "archived" ELSE "synced"
            /\ \A i \in 1..Len(documents) : documents[i].id # id => documents'[i] = documents[i]
            /\ Len(documents') = Len(documents)

C24_ArchivedStep ==
    \A i \in 1..Len(documents) :
        documents[i].localState = "archived" =>
            /\ Len(documents') >= i
            /\ documents'[i].localState \notin { "pending_download", "downloading" }

\* C24: once a document is 'archived', nothing moves it to 'pending_download'
\* or 'downloading', its blob missing from the files store included.
C24_ArchivedStays == [][C24_ArchivedStep]_vars

\* The documents a getDocumentFile call is downloading, by the state the call
\* found them in: a step that starts a download appends to downloads.
C25_StartsDownloadStep == Len(downloads') > Len(downloads)

\* A download is started only for a document the call found in
\* 'pending_download' or 'error', and a call leaves an 'expired' document
\* 'expired'.
C25_ManualFetchStep ==
    /\ C25_StartsDownloadStep =>
           StateOf(downloads'[Len(downloads')].id) \in { "pending_download", "error" }
    /\ \A id \in DocIds : StateOf(id) = "expired" =>
           documents'[CHOOSE i \in 1..Len(documents) : documents[i].id = id].localState = "expired"

\* C25: getDocumentFile attempts a download only for a document in
\* 'pending_download' or 'error'; for an 'expired' document it attempts none
\* and the document stays 'expired'.
C25_ManualFetch == [][C25_ManualFetchStep]_vars

\* The statuses a manualSync call ends with.
EndStatuses == { "synced", "error", "unconfigured", "uninitialized" }

\* The step in which a manualSync call ends sets one of the end statuses.
C26_EndStep ==
    \A s \in Slots :
        (InFlight(runs[s]) /\ ~ InFlight(runs'[s])) => syncStatus' \in EndStatuses

\* With no manualSync call in flight the status is not 'syncing'.
C26_NotLeftSyncing ==
    (\A s \in Slots : ~ InFlight(runs[s])) => syncStatus # "syncing"

\* C26: every manualSync call that has set 'syncing' ends, its remote calls
\* returning, and ends with 'synced', 'error', 'unconfigured' or
\* 'uninitialized'; the status is not left at 'syncing' once the calls have
\* ended.
C26_Termination ==
    /\ [][C26_EndStep]_vars
    /\ [] C26_NotLeftSyncing
    /\ \A s \in Slots : InFlight(runs[s]) ~> ~ InFlight(runs[s])

\* C26 witness: a manualSync call that pushed rows has ended with 'synced'.
C26_Witness ==
    \E s \in Slots :
        /\ HasPublished(runs[s])
        /\ HasRows(runs[s].upserted)
        /\ syncStatus = "synced"
        /\ \A q \in Slots : ~ InFlight(runs[q])

\* The call started from the scenario's tree and fetched the tombstone of Case Y.
InScenario(r) ==
    /\ \E tX \in { NoDate, AtClock(10, 0, 0) } :
           r.localData = ScenarioData(AtClock(10, 0, 0), tX, AtClock(9, 0, 0), <<>>)
    /\ r.remoteDeletions = << TombstoneY(AtClock(9, 30, 0)) >>

\* C27: local Client A (id 1, updated 10:00) holds Case X (id 10) and Case Y
\* (id 11, last updated 09:00); the remote store has Client A updated 09:00 and
\* a tombstone for Case Y of 09:30: the sync publishes the local Client A and
\* marks it for push, keeps Case X and drops Case Y.
C27_Scenario ==
    \A s \in Slots : (HasPublished(runs[s]) /\ InScenario(runs[s])) =>
        LET pub == runs[s].published.clients
        IN  /\ Len(pub) = 1
            /\ pub[1].id = "1" /\ pub[1].ver = "L"
            /\ pub[1].updated_at = AtClock(10, 0, 0)
            /\ \E i \in 1..Len(runs[s].plan.upserts.clients) :
                   /\ runs[s].plan.upserts.clients[i].id = "1"
                   /\ runs[s].plan.upserts.clients[i].ver = "L"
            /\ { pub[1].cases[i].id : i \in 1..Len(pub[1].cases) } = { "10" }
            /\ Len(pub[1].cases) = 1
            /\ \A i \in 1..Len(runs[s].plan.upserts.cases) :
                   runs[s].plan.upserts.cases[i].id # "11"

\* C27 witness: the scenario's call has published, Case Y's row still on the
\* remote store when it fetched.
C27_Witness ==
    \E s \in Slots :
        /\ HasPublished(runs[s])
        /\ InScenario(runs[s])
        /\ \E i \in 1..Len(remoteTables.cases) : remoteTables.cases[i].id = "11"
        /\ Len(runs[s].published.clients[1].cases) = 1

\* Does record r of the flat tables have a record of table parents with the id
\* it names in fk?
HasParent(r, fk, parents) == \E i \in 1..Len(parents) : parents[i].id = r[fk]

\* Is the record with the id nested, in the flat view of the rebuilt tree,
\* under the parent that r names in fk?
PlacedUnder(r, fk, nested) ==
    \E i \in 1..Len(nested) : nested[i].id = r.id /\ nested[i][fk] = r[fk]

\* A child of the flat table is in the rebuilt tree, under its parent, exactly
\* when its chain of parents is complete, and nowhere in the tree otherwise.
PlacedIffComplete(children, fk, nested, complete(_)) ==
    \A i \in 1..Len(children) :
        IF complete(children[i])
        THEN PlacedUnder(children[i], fk, nested)
        ELSE children[i].id \notin IdsOf(nested)

\* C28: constructData returns for a flat data set in which a child's foreign
\* key matches no parent record: a case, stage, session or invoice item with a
\* dangling foreign key is absent from the tree, and every record whose chain
\* of parents is complete is placed under its parent.
C28_DanglingChildren ==
    tPc = "published" =>
        LET back == flattenData(tBack)
            caseOk(c) == HasParent(c, "client_id", tFlat.clients)
            stageOk(st) ==
                \E i \in 1..Len(tFlat.cases) :
                    tFlat.cases[i].id = st.case_id /\ caseOk(tFlat.cases[i])
            sessionOk(x) ==
                \E i \in 1..Len(tFlat.stages) :
                    tFlat.stages[i].id = x.stage_id /\ stageOk(tFlat.stages[i])
            itemOk(j) == HasParent(j, "invoice_id", tFlat.invoices)
        IN  /\ PlacedIffComplete(tFlat.cases, "client_id", back.cases, caseOk)
            /\ PlacedIffComplete(tFlat.stages, "case_id", back.stages, stageOk)
            /\ PlacedIffComplete(tFlat.sessions, "stage_id", back.sessions, sessionOk)
            /\ PlacedIffComplete(tFlat.invoice_items, "invoice_id", back.invoice_items, itemOk)
            /\ Len(tBack.clients) = Len(tFlat.clients)
            /\ Len(tBack.invoices) = Len(tFlat.invoices)

\* C28 witness: a tree rebuilt from tables in which a case names a client that
\* is gone, next to a client that holds a case with a stage.
C28_Witness ==
    /\ tPc = "published"
    /\ \E i \in 1..Len(tFlat.cases) : ~ HasParent(tFlat.cases[i], "client_id", tFlat.clients)
    /\ \E i \in 1..Len(tBack.clients) : \E j \in 1..Len(tBack.clients[i].cases) :
           Len(tBack.clients[i].cases[j].stages) > 0

(***************************************************************************)
(* Claims about the tombstones of deleteDataFromSupabase (SpecDelete)      *)
(***************************************************************************)

\* The tables manualSync's flatDeletes has a pending list for: every table
\* but profiles.
PendingTables == TableSet \ { "profiles" }

\* The request is the insert of one tombstone per id of the table.
IsLogOf(q, table) ==
    q.op = "insert" /\ q.table = table /\ q.ids = dDeletions[table]

\* C29: for each table with pending deletions, deleteDataFromSupabase first
\* attempts the insert of one tombstone per pending id and only then issues the
\* delete of those ids; a failed insert does not end the call, and the delete
\* is still issued.
C29_TombstoneThenDelete ==
    /\ \A i \in 1..Len(dSent) :
          (dSent[i].op = "delete" /\ dSent[i].table \in PendingTables) =>
              /\ i > 1
              /\ IsLogOf(dSent[i - 1], dSent[i].table)
              /\ dSent[i].ids = dDeletions[dSent[i].table]
    /\ \A i \in 1..Len(dSent) :
          dSent[i].op = "insert" =>
              IF i < Len(dSent)
              THEN dSent[i + 1].op = "delete" /\ dSent[i + 1].table = dSent[i].table
              ELSE dPc = "logged"
    /\ dPc = "returned" =>
          \A t \in PendingTables : Len(dDeletions[t]) > 0 =>
              \E i \in 1..Len(dSent) : dSent[i].op = "delete" /\ dSent[i].table = t

\* C29 witness: the call returned after an insert of tombstones failed, the
\* delete of that table and the requests of a later table issued.
C29_Witness ==
    /\ dPc = "returned"
    /\ \E i \in 1..Len(dSent) :
          /\ dSent[i].op = "insert" /\ ~ dSent[i].ok
          /\ i + 2 <= Len(dSent)
          /\ dSent[i + 1].op = "delete"
          /\ dSent[i + 2].op = "insert"

\* The rows the server returned for a table, as manualSync reads them.
ReturnedRows(r, t) == transformRemoteToLocal(r.upserted)[t]

\* The merged tables of the call after the fold, which constructData is given.
Folded(r) == FoldUpserted(r.mergedFlatData, r.upserted)

\* C30: after a successful upsert in manualSync, a record of a merged table
\* whose primary key is the primary key of a record the server returned for
\* that table is replaced by that record in the published result, and every
\* other merged record is published unchanged.
C30_FoldByTable ==
    \A s \in Slots : HasPublished(runs[s]) =>
        /\ runs[s].published = constructData(Folded(runs[s]))
        /\ \A t \in TableSet : \A i \in 1..Len(runs[s].mergedFlatData[t]) :
               LET item == runs[s].mergedFlatData[t][i]
                   rows == ReturnedRows(runs[s], t)
                   hits == { j \in 1..Len(rows) : getPk(rows[j]) = getPk(item) }
               IN  IF hits = {} THEN Folded(runs[s])[t][i] = item
                   ELSE \E j \in hits : Folded(runs[s])[t][i] = rows[j]

(***************************************************************************)
(* Claims about the work done while a call is in flight (SpecEdits)        *)
(***************************************************************************)

\* The ids of the cases in a tree.
CaseIdsOf(tree) == UNION { IdsOf(tree.clients[i].cases) : i \in 1..Len(tree.clients) }

\* The metadata records of the documents waiting for their upload.
LocalOnlyMeta ==
    { i \in 1..Len(localDocsMetadata) :
        localDocsMetadata[i].localState \in { "pending_upload", "error" } }

C31_PublishStep ==
    DataSyncedOk =>
        \A i \in LocalOnlyMeta : localDocsMetadata[i].id \in IdsOf(data'.documents)

\* C31: after any publish of a merged tree (handleDataSynced), every document
\* that has a metadata record in state 'pending_upload' or 'error' is in the
\* local snapshot, also when the merged result of the sync did not contain it.
C31_LocalDocsKept == [][C31_PublishStep]_vars

\* A publish has dropped case k2, purged by its tombstone, and with it the
\* document d2 of the merged result, and d2 is in the snapshot.
C31_Witness ==
    /\ LocalOnlyMeta # {}
    /\ "k2" \notin CaseIdsOf(data)
    /\ "d2" \in IdsOf(data.documents)

(***************************************************************************)
(* Further claims about manualSync's push (SpecScenario, SpecSync)         *)
(***************************************************************************)

\* The child tables, with the field naming the parent and the parent's table.
ParentLinks ==
    { << "cases", "client_id", "clients" >>, << "stages", "case_id", "cases" >>,
      << "sessions", "stage_id", "stages" >>, << "invoices", "clientId", "clients" >>,
      << "invoice_items", "invoice_id", "invoices" >>,
      << "case_documents", "caseId", "cases" >> }

\* The records of table link[1] marked for push whose parent is in the merged
\* parent table.
PushableChildren(r, link) ==
    SelectSeq(r.plan.upserts[link[1]],
              LAMBDA x : x[link[2]] \in IdsOf(r.mergedFlatData[link[3]]))

\* C32: in a manualSync run that publishes, a record marked for push whose
\* parent record is in the merged parent table has been sent to the remote
\* store, also when the parent itself is not marked for push.
C32_ChildOfUnchangedParentSent ==
    \A s \in Slots : HasPublished(runs[s]) =>
        \A link \in ParentLinks :
            KeysOf(PushableChildren(runs[s], link)) \subseteq KeysOf(runs[s].upserted[link[1]])

\* A call that has fetched and merged.
HasMerged(r) == r.pc \in { "blobs", "delete", "upsert", "commit" }

\* Is the parent of record x of table t absent from the filtered tables?
ParentAbsent(t, x, filtered) ==
    \/ \E link \in ParentLinks :
          link[1] = t /\ x[link[2]] \notin IdsOf(filtered[link[3]])
    \/ t = "accounting_entries" /\ ~ Falsy(x.clientId)
          /\ x.clientId \notin IdsOf(filtered.clients)

\* C33: applyDeletionsToLocal removes a local record only if a tombstone purges
\* the record itself or its parent record is absent from the filtered parent
\* table; for any non-empty tombstone list, a local invoice whose clientId is
\* the id of a retained client is retained together with its items.
C33_RemovesOnlyPurgedOrOrphaned ==
    \A s \in Slots : HasMerged(runs[s]) =>
        LET localFlatData == flattenData(runs[s].localData)
            filtered == applyDeletionsToLocal(localFlatData, runs[s].remoteDeletions)
        IN  \A t \in TableSet : \A i \in 1..Len(localFlatData[t]) :
                LET x == localFlatData[t][i]
                IN  x \notin Range(filtered[t]) =>
                        \/ ~ KeptByTombstones(x, t, runs[s].remoteDeletions)
                        \/ ParentAbsent(t, x, filtered)

\* A fetchAndRefresh call that has published its merged result.
HasRefreshed(r) == r.kind = "refresh" /\ r.pc = "commit"

\* C34: the merged tree fetchAndRefresh publishes has no record whose id is in
\* the locally pending deletion list of its table: a record deleted locally
\* and not yet pushed does not reappear when the remote store still holds it.
C34_RefreshKeepsDeleted ==
    \A s \in Slots : HasRefreshed(runs[s]) =>
        \A t \in TableSet :
            Range(flatDeletes(deletedIds)[t])
                \cap KeysOf(flattenData(runs[s].published)[t]) = {}

\* The records of a tree that a merge against the remote rows would mark for
\* push, per table.
StillToPush(tree, remote) ==
    [ t \in TableSet |->
        mergeItems(flattenData(tree)[t], transformRemoteToLocal(remote)[t], {}, t).toUpsert ]

C35_ClearStep ==
    (DataSyncedOk /\ ~ isDirty') =>
        /\ \A t \in TableSet : StillToPush(data', remoteTables')[t] = <<>>
        /\ \A k \in DeletedIdKeys : deletedIds'[k] = <<>>

\* C35: whenever a publish (from manualSync or from fetchAndRefresh) clears
\* the dirty flag, no record of the local snapshot would still be marked for
\* push against the remote data and the pending-deletion lists hold no
\* unpushed id.
C35_CleanWhenNotDirty == [][C35_ClearStep]_vars

\* A manualSync call publishes in this step: onDeletionsSynced is applied.
PublishesStep(s) ==
    runs[s].kind = "manual" /\ runs[s].pc # "commit" /\ runs'[s].pc = "commit"

C36_DeletionsSyncedStep ==
    \A s \in Slots : PublishesStep(s) =>
        \A k \in DeletedIdKeys : \A id \in Range(deletedIds[k]) :
            id \notin Range(runs'[s].successfulDeletions[k]) => id \in Range(deletedIds'[k])

\* C36: a deletion id queued while a sync run is in flight is still in the
\* pending-deletion list after that run's onDeletionsSynced has been applied;
\* an id leaves the list only if it was among the deletions the run pushed
\* successfully.
C36_QueuedDeletionKept == [][C36_DeletionsSyncedStep]_vars

\* The admin tasks added to the snapshot since the call read localData.
AddedSince(r) == IdsOf(data.adminTasks) \ IdsOf(r.localData.adminTasks)

C37_PublishStep ==
    \A s \in Slots :
        (runs[s].pc = "commit" /\ DataSyncedOk /\ runs'[s].pc = "idle") =>
            AddedSince(runs[s]) \subseteq IdsOf(data'.adminTasks)

\* C37: a local edit applied to the snapshot after a manualSync or
\* fetchAndRefresh run has read localData and before that run publishes is
\* still in the local snapshot after the publish.
C37_EditDuringRunKept == [][C37_PublishStep]_vars

C38_PathsStep ==
    \A path \in Range(deletedIds.documentPaths) :
        path \notin Range(deletedIds'.documentPaths) => path \notin storage'

\* C38: a document storage path leaves the pending documentPaths queue only if
\* the remote blob removal succeeded; if the removal returned an error, the
\* path stays queued (its blob is still in the bucket), also when the same
\* run pushes row deletions successfully.
C38_PathQueuedUntilRemoved == [][C38_PathsStep]_vars

(***************************************************************************)
(* Further claims about the documents (SpecDocs)                           *)
(***************************************************************************)

\* The bucket has just answered a transfer of the document with success.
Transferred(id) ==
    /\ response'.op \in { "upload", "download" }
    /\ response'.id = id
    /\ response'.result = "ok"

C39_SyncedStep ==
    \A id \in DocIds :
        (StateOf(id) # "synced" /\ StateOf(id)' = "synced") => Transferred(id)

\* C39: a document becomes 'synced' only when its blob has been uploaded from
\* this device or downloaded to it with success; reading a blob that is
\* already in the local store never moves a 'pending_upload' or 'error'
\* document to 'synced'.
C39_SyncedOnlyAfterTransfer == [][C39_SyncedStep]_vars

(***************************************************************************)
(* Further claims about the fold of the returned rows (SpecScenario)       *)
(***************************************************************************)

\* C40: the fold of the server-returned records in manualSync replaces a
\* merged record only with a record returned for the same table: a record
\* returned for one table never replaces a merged record of another table
\* that has the same id value.
C40_FoldWithinTable ==
    \A s \in Slots : HasPublished(runs[s]) =>
        \A t \in TableSet : \A i \in 1..Len(runs[s].mergedFlatData[t]) :
            \/ Folded(runs[s])[t][i] = runs[s].mergedFlatData[t][i]
            \/ Folded(runs[s])[t][i] \in Range(ReturnedRows(runs[s], t))

====
